---- MODULE Spec2Model ----
(***************************************************************************)
(* Model of functions/index.js (VLOG trip planner, Cloud Functions v2).    *)
(*                                                                         *)
(* The specifications below share one list of variables:                   *)
(*   SpecImg      the image helpers (shouldUpdateImage, isImageAppropriate,*)
(*                _fetchImageForSpotLogic) and analyzeSpotSuggestionV2     *)
(*                applied to inputs drawn by InitImg;                      *)
(*   Spec         the handlers that fetch, modify and write the region     *)
(*                documents held in the GitHub repository, interleaved at  *)
(*                their await points;                                      *)
(*   SpecConfirm  confirmImageUpdatesV2 racing with a resolution;          *)
(*   SpecBatch    a batch reader racing with a resolution;                 *)
(*   SpecAll      the seven callables reserved to administrators.          *)
(* Strings whose characters matter (classifier answers, image fields) are  *)
(* sequences of one-character strings; URLs and names that are only        *)
(* compared for equality are plain strings.                                *)
(***************************************************************************)
EXTENDS Integers, Sequences, FiniteSets, TLC

VARIABLES
    op,         \* SpecImg: the helper under call
    inp,        \* SpecImg: its arguments and the answers of the external services
    ret,        \* SpecImg: what the call returned / threw
    aiCalls,    \* SpecImg: number of requests sent to the text-generation endpoint
    files,      \* GitHub: data/<id>.json -> [content, sha]
    commits,    \* GitHub: the commits made to the data files, oldest first
    imageReports,   \* Firestore: ids of the documents of image_reports
    editRequests,   \* Firestore: edit_requests, id -> document
    submissions,    \* Firestore: ids of the documents of spot_submissions
    announcements,  \* Firestore: the documents added to announcements, oldest first
    mailbox,        \* Firestore: users/<uid>/mailbox, the documents added, oldest first
    pc,         \* per invocation: the await it is suspended at
    call,       \* per invocation: handler, caller identity and request.data
    local,      \* per invocation: the handler's local variables
    io,         \* per invocation: the GitHub requests it has made and their answers
    outcome     \* per invocation: the result returned or the HttpsError thrown

imgVars == <<op, inp, ret, aiCalls>>
gitVars == <<files, commits>>
dbVars == <<imageReports, editRequests, submissions, announcements, mailbox>>
storeVars == <<gitVars, dbVars>>
procVars == <<pc, call, local, io, outcome>>
vars == <<op, inp, ret, aiCalls, files, commits,
          imageReports, editRequests, submissions, announcements, mailbox,
          pc, call, local, io, outcome>>

(***************************************************************************)
(* Bounds.                                                                 *)
(***************************************************************************)
MaxItems == 4       \* longest image-search response (items)
MaxUpdates == 3     \* longest updates list given to confirmImageUpdatesV2 (SpecConfirm)

(***************************************************************************)
(* Character-level strings: String.prototype.trim / toLowerCase / includes *)
(***************************************************************************)
Whitespace == {" ", "\n"}

LowerOf(c) ==
    CASE c = "Y" -> "y"
      [] c = "E" -> "e"
      [] c = "S" -> "s"
      [] OTHER   -> c

ToLowerCase(s) == [i \in 1..Len(s) |-> LowerOf(s[i])]

RECURSIVE TrimStart(_)
TrimStart(s) ==
    IF s = <<>> THEN s
    ELSE IF Head(s) \in Whitespace THEN TrimStart(Tail(s)) ELSE s

RECURSIVE TrimEnd(_)
TrimEnd(s) ==
    IF s = <<>> THEN s
    ELSE IF s[Len(s)] \in Whitespace THEN TrimEnd(SubSeq(s, 1, Len(s) - 1)) ELSE s

Trim(s) == TrimEnd(TrimStart(s))

Includes(s, t) ==
    \E i \in 0..(Len(s) - Len(t)) : SubSeq(s, i + 1, i + Len(t)) = t

Yes == <<"y", "e", "s">>

(***************************************************************************)
(* Answers of the text-generation endpoint, as the helpers see them.       *)
(*   throw       fetch() rejects (transport error)                         *)
(*   notok       response.ok is false                                      *)
(*   badjson     response.json() rejects                                   *)
(*   nocands     body without "candidates"                                 *)
(*   emptycands  candidates = []                                           *)
(*   nocontent   candidates[0] without "content"                           *)
(*   emptyparts  content.parts = []                                        *)
(*   notext      parts[0] without "text"                                   *)
(*   text        parts[0].text is the string in .text                      *)
(***************************************************************************)
Texts ==
    { Yes,
      <<"Y", "e", "s", "\n">>,
      <<" ", "Y", "E", "S">>,
      <<"y", "e", "s", ".">>,
      <<"e", "y", "e", "s">>,
      <<"y", " ", "e", "s">>,
      <<"n", "o">>,
      <<" ">>,
      <<>> }

FailureKinds ==
    {"throw", "notok", "badjson", "nocands", "emptycands", "nocontent",
     "emptyparts", "notext"}

AiResponses ==
    [kind : FailureKinds, text : {<<>>}] \cup [kind : {"text"}, text : Texts]

NotCalled == [done |-> FALSE]

Returned(v) == [threw |-> FALSE, value |-> v]
Threw       == [threw |-> TRUE, value |-> FALSE]

(***************************************************************************)
(* isImageAppropriate (lines 477-491).                                     *)
(***************************************************************************)
\* the body of the try block: no optional chaining, every missing level of
\* the response raises a TypeError
IsImageAppropriateTry(resp) ==
    CASE resp.kind = "throw" -> Threw
      [] resp.kind = "notok" -> Returned(FALSE)
      [] resp.kind \in {"badjson", "nocands", "emptycands", "nocontent",
                        "emptyparts", "notext"} -> Threw
      [] OTHER -> Returned(Includes(ToLowerCase(Trim(resp.text)), Yes))

IsImageAppropriateNoCatch(resp) == IsImageAppropriateTry(resp)

IsImageAppropriate(resp) ==
    LET r == IsImageAppropriateTry(resp)
    IN  IF r.threw THEN Returned(FALSE) ELSE r

(***************************************************************************)
(* shouldUpdateImage (lines 493-514).                                      *)
(***************************************************************************)
\* the emptiness test without the trim
ImageIsEmptyNoTrim(spot) ==
    \/ "image" \notin DOMAIN spot
    \/ spot.image = <<>>

\* !spot.image || spot.image.trim() === ''
ImageIsEmpty(spot) ==
    \/ "image" \notin DOMAIN spot
    \/ spot.image = <<>>
    \/ Trim(spot.image) = <<>>

\* the try block with includes("yes") in place of === "yes"
ShouldUpdateImageTryIncludes(resp) ==
    CASE resp.kind = "throw" -> Threw
      [] resp.kind = "notok" -> Returned(FALSE)
      [] resp.kind \in {"badjson", "nocands", "notext"} -> Threw
      [] resp.kind \in {"emptycands", "nocontent", "emptyparts"} -> Returned(FALSE)
      [] OTHER -> Returned(Includes(ToLowerCase(Trim(resp.text)), Yes))

\* the body of the try block: result.candidates[0]?.content?.parts[0]?.text
\* yields undefined when candidates[0], content or parts[0] is missing, and
\* undefined === "yes" is false
ShouldUpdateImageTry(resp) ==
    CASE resp.kind = "throw" -> Threw
      [] resp.kind = "notok" -> Returned(FALSE)
      [] resp.kind \in {"badjson", "nocands", "notext"} -> Threw
      [] resp.kind \in {"emptycands", "nocontent", "emptyparts"} -> Returned(FALSE)
      [] OTHER -> Returned(ToLowerCase(Trim(resp.text)) = Yes)

\* .calls: requests sent to the classifier by this call
ShouldUpdateImage(spot, resp) ==
    IF ImageIsEmpty(spot)
    THEN [threw |-> FALSE, value |-> TRUE, calls |-> 0]
    ELSE LET r == ShouldUpdateImageTry(resp)
         IN  [threw |-> FALSE,
              value |-> IF r.threw THEN FALSE ELSE r.value,
              calls |-> 1]

(***************************************************************************)
(* _fetchImageForSpotLogic (lines 516-551).                                *)
(* An item of the search response is {link, image.contextLink,             *)
(* displayLink}; a candidate copies the three.                             *)
(***************************************************************************)
Null == "null"
MaxCandidates == 3

Candidate(item) ==
    [url |-> item.link, sourceLink |-> item.contextLink, displayLink |-> item.displayLink]

\* the first loop without the test of line 532
RECURSIVE FilterLoopNoLimit(_, _, _, _, _)
FilterLoopNoLimit(items, answers, reportedImageUrl, i, candidates) ==
    IF i > Len(items) THEN candidates
    ELSE IF items[i].link = reportedImageUrl
         THEN FilterLoopNoLimit(items, answers, reportedImageUrl, i + 1, candidates)
    ELSE IF IsImageAppropriate(answers[i]).value
         THEN FilterLoopNoLimit(items, answers, reportedImageUrl, i + 1,
                                Append(candidates, Candidate(items[i])))
    ELSE FilterLoopNoLimit(items, answers, reportedImageUrl, i + 1, candidates)

\* first loop (lines 530-538): items accepted by isImageAppropriate;
\* answers[i] is the classifier's response to the request made for items[i]
RECURSIVE FilterLoop(_, _, _, _, _)
FilterLoop(items, answers, reportedImageUrl, i, candidates) ==
    IF i > Len(items) \/ Len(candidates) >= MaxCandidates THEN candidates
    ELSE IF items[i].link = reportedImageUrl
         THEN FilterLoop(items, answers, reportedImageUrl, i + 1, candidates)
    ELSE IF IsImageAppropriate(answers[i]).value
         THEN FilterLoop(items, answers, reportedImageUrl, i + 1,
                         Append(candidates, Candidate(items[i])))
    ELSE FilterLoop(items, answers, reportedImageUrl, i + 1, candidates)

\* second loop (lines 539-546): backfill with unfiltered items
RECURSIVE BackfillLoopKeepsReported(_, _, _, _)
BackfillLoopKeepsReported(items, reportedImageUrl, i, candidates) ==
    IF i > Len(items) \/ Len(candidates) >= MaxCandidates THEN candidates
    ELSE IF ~ \E k \in 1..Len(candidates) : candidates[k].url = items[i].link
         THEN BackfillLoopKeepsReported(items, reportedImageUrl, i + 1,
                                        Append(candidates, Candidate(items[i])))
    ELSE BackfillLoopKeepsReported(items, reportedImageUrl, i + 1, candidates)

RECURSIVE BackfillLoop(_, _, _, _)
BackfillLoop(items, reportedImageUrl, i, candidates) ==
    IF i > Len(items) \/ Len(candidates) >= MaxCandidates THEN candidates
    ELSE IF /\ items[i].link # reportedImageUrl
            /\ ~ \E k \in 1..Len(candidates) : candidates[k].url = items[i].link
         THEN BackfillLoop(items, reportedImageUrl, i + 1,
                           Append(candidates, Candidate(items[i])))
    ELSE BackfillLoop(items, reportedImageUrl, i + 1, candidates)

Accepted(items, answers, reportedImageUrl) ==
    FilterLoop(items, answers, reportedImageUrl, 1, <<>>)

\* search.kind: "nokey" (credentials unset), "throw" (fetch rejects),
\* "notok", "noitems" (body without items), "ok" (items in search.items)
FetchImageForSpotLogic(search, answers, reportedImageUrl) ==
    CASE search.kind \in {"nokey", "throw", "notok"} ->
            [threw |-> TRUE, code |-> "internal", candidates |-> <<>>]
      [] search.kind = "noitems" ->
            [threw |-> FALSE, code |-> "", candidates |-> <<>>]
      [] OTHER ->
            LET accepted == Accepted(search.items, answers, reportedImageUrl)
            IN  [threw |-> FALSE, code |-> "",
                 candidates |-> BackfillLoop(search.items, reportedImageUrl, 1, accepted)]

(***************************************************************************)
(* The GitHub repository: one JSON document per region under data/, each   *)
(* with the blob revision ("sha") the contents API reports for it.         *)
(***************************************************************************)
Procs == {"c1", "c2"}           \* the invocations that may run concurrently

RegionIds == {"tokyo", "osaka", "okayama"}

\* `data/${prefId}.json`
FilePath(prefId) == <<"data", prefId, "json">>

FilePaths == {FilePath(id) : id \in RegionIds}

\* a spot, with the fields the handlers read or write (category,
\* description, links and stay time are carried along untouched)
SpotOf(prefecture, name, area, image) ==
    [prefecture |-> prefecture, name |-> name, area |-> area, tags |-> "tags0",
     image |-> image, imageSource |-> "site", imageSourceUrl |-> "page"]

AreaOf(name) == [name |-> name, top |-> "50%", left |-> "50%"]

\* the documents of the repository before any call; the document of Tokyo
\* has no transitData yet
InitialContent(id) ==
    CASE id = "tokyo" ->
            [name |-> "Tokyo",
             spots |-> <<SpotOf("Tokyo", "A", "Shibuya", "oldA"),
                         SpotOf("Tokyo", "B", "Shibuya", "")>>,
             areaPositions |-> <<AreaOf("Shibuya")>>]
      [] id = "osaka" ->
            [name |-> "Osaka",
             spots |-> <<SpotOf("Osaka", "C", "Umeda", "oldC")>>,
             areaPositions |-> <<AreaOf("Umeda")>>,
             transitData |-> <<>>]
      [] OTHER ->
            [name |-> "Okayama",
             spots |-> <<SpotOf("Okayama", "D", "Kurashiki", "oldD")>>,
             areaPositions |-> <<AreaOf("Kurashiki")>>,
             transitData |-> <<>>]

\* findIndex(s => s.name === name): 0 stands for -1
FindIndex(spots, name) ==
    IF \E i \in 1..Len(spots) : spots[i].name = name
    THEN CHOOSE i \in 1..Len(spots) :
            /\ spots[i].name = name
            /\ \A j \in 1..(i - 1) : spots[j].name # name
    ELSE 0

(***************************************************************************)
(* getPrefectureIdMap (lines 102-135): the map from a region's display     *)
(* name to its id, built from the documents that could be read; the        *)
(* default map when the directory cannot be listed or nothing was read.    *)
(* A map is a set of <<name, id>> pairs.                                   *)
(***************************************************************************)
DefaultPrefectureIdMap ==
    {<<"Tokyo", "tokyo">>, <<"Osaka", "osaka">>, <<"Okayama", "okayama">>}

GetPrefectureIdMap(listed, readable) ==
    LET map == {<<files[FilePath(id)].content.name, id>> : id \in readable}
    IN  IF ~listed \/ map = {} THEN DefaultPrefectureIdMap ELSE map

\* prefectureIdMap[name]; Null stands for undefined
Lookup(map, name) ==
    IF \E e \in map : e[1] = name
    THEN (CHOOSE e \in map : e[1] = name)[2]
    ELSE Null

(***************************************************************************)
(* updateGitHubFile (lines 71-96): the PUT and what is thrown on its       *)
(* answer. The contents API accepts the PUT when the sha sent with it is   *)
(* the document's current one and answers 409 otherwise; any answer that   *)
(* is not ok is thrown as "internal".                                      *)
(***************************************************************************)
PutStatus(filePath, sha, reachable) ==
    IF ~reachable THEN "error"
    ELSE IF files[filePath].sha = sha THEN "ok"
    ELSE "conflict"

UpdateGitHubFileError(status) ==
    IF status # "ok" THEN "internal" ELSE ""

\* the sha a handler sends with its write: the one its fetch returned
WriteShaCurrent(c) == files[local[c].filePath].sha

WriteSha(c) == local[c].sha

\* the locals of a handler, before it has set any
NoLocal ==
    [filePath |-> <<>>, currentJson |-> [name |-> "", spots |-> <<>>], sha |-> 0,
     groups |-> <<>>, next |-> 0, commitCount |-> 0,
     requestData |-> <<>>, announcement |-> "",
     prefectures |-> <<>>, todo |-> {}, spotsToUpdate |-> <<>>, result |-> <<>>]

\* the external requests of one invocation: GETs and PUTs sent per document,
\* each document's fate, the documents whose PUT was answered 409, the
\* shouldUpdateImage checks and image searches made with their results, the
\* answer to its listing of the data directory, the last PUT with its
\* answer, the error it raised
NoIo ==
    [gets |-> [f \in FilePaths |-> 0], puts |-> [f \in FilePaths |-> 0],
     fate |-> [f \in FilePaths |-> "none"], stale |-> {},
     checks |-> <<>>, searches |-> <<>>, listing |-> "none",
     put |-> [filePath |-> <<>>, sha |-> 0, status |-> "none"], err |-> ""]

\* what the caller gets: the result object (count: the number in the message
\* of confirmImageUpdatesV2; value: the counts or proposals of the batch
\* readers) or the code of the HttpsError thrown
Pending == [kind |-> "pending", code |-> "", count |-> 0, value |-> <<>>]
Success == [kind |-> "success", code |-> "", count |-> 0, value |-> <<>>]
Failure(code) == [kind |-> "error", code |-> code, count |-> 0, value |-> <<>>]

\* request.auth alone, without request.auth.token.admin
IsAuthenticated(caller) == caller # "anonymous"

\* request.auth && request.auth.token.admin
IsAdmin(caller) == caller = "admin"

Users == {"u1"}

\* the documents submitEditRequestV2 (lines 150-157) has added: an edit and
\* a delete request for the same spot, both pending
EditRequestOf(spotName, prefecture, requestType) ==
    [spotName |-> spotName, prefecture |-> prefecture, requestType |-> requestType,
     status |-> "pending", submittedBy |-> "u1"]

InitialEditRequests ==
    [id \in {"req1", "req2"} |->
        IF id = "req1" THEN EditRequestOf("A", "Tokyo", "edit")
        ELSE EditRequestOf("A", "Tokyo", "delete")]
Callers == {"admin", "user", "anonymous"}

\* nothing stored and nobody calling: the store part of SpecImg's states
StoreIdle ==
    /\ files = [f \in FilePaths |-> [content |-> [name |-> "", spots |-> <<>>], sha |-> 0]]
    /\ commits = <<>>
    /\ imageReports = {}
    /\ editRequests = <<>>
    /\ submissions = {}
    /\ announcements = <<>>
    /\ mailbox = <<>>
    /\ pc = [c \in Procs |-> "idle"]
    /\ call = [c \in Procs |-> [handler |-> "", caller |-> "", data |-> <<>>]]
    /\ local = [c \in Procs |-> NoLocal]
    /\ io = [c \in Procs |-> NoIo]
    /\ outcome = [c \in Procs |-> Pending]

\* nothing called: the image part of the store specifications' states
ImgIdle ==
    /\ op = ""
    /\ inp = <<>>
    /\ ret = NotCalled
    /\ aiCalls = 0

Init ==
    /\ ImgIdle
    /\ files = [f \in FilePaths |->
                  [content |-> InitialContent(f[2]), sha |-> 1]]
    /\ commits = <<>>
    /\ imageReports = {"rep1", "rep2"}
    /\ editRequests = InitialEditRequests
    /\ submissions = {"sub1", "sub2"}
    /\ announcements = <<>>
    /\ mailbox = [u \in Users |-> <<>>]
    /\ pc = [c \in Procs |-> "idle"]
    /\ call = [c \in Procs |-> [handler |-> "", caller |-> "", data |-> <<>>]]
    /\ local = [c \in Procs |-> NoLocal]
    /\ io = [c \in Procs |-> NoIo]
    /\ outcome = [c \in Procs |-> Pending]

(***************************************************************************)
(* Steps shared by the handlers. A handler runs from one await to the next *)
(* without interruption; each action below is one such stretch.            *)
(***************************************************************************)
Finish(c, o) ==
    /\ pc' = [pc EXCEPT ![c] = "done"]
    /\ outcome' = [outcome EXCEPT ![c] = o]

Goto(c, label) ==
    /\ pc' = [pc EXCEPT ![c] = label]
    /\ UNCHANGED outcome

\* a || b
OrElse(a, b) == IF a \in {Null, ""} THEN b ELSE a

\* the record of a GET of the data directory (getPrefectureIdMap, lines
\* 103-111, and _getPrefectureListLogic, lines 342-346)
IoList(c, listed) == [io[c] EXCEPT !.listing = IF listed THEN "ok" ELSE "failed"]

\* the record of a GET data/<id>.json (getGitHubFile, lines 46-61), which
\* throws not-found when the answer is not ok
IoGet(c, filePath, ok) ==
    [io[c] EXCEPT !.gets[filePath] = @ + 1,
                  !.fate[filePath] = IF ok THEN @ ELSE "fetch-failed"]

\* the record of a PUT data/<id>.json (updateGitHubFile, lines 71-96)
IoPut(c, filePath, sha, status) ==
    [io[c] EXCEPT !.puts[filePath] = @ + 1,
                  !.fate[filePath] = IF status = "ok" THEN "written" ELSE "write-failed",
                  !.stale = IF status = "conflict" THEN @ \cup {filePath} ELSE @,
                  !.put = [filePath |-> filePath, sha |-> sha, status |-> status],
                  !.err = UpdateGitHubFileError(status)]

\* updateGitHubFile(filePath, newContent, sha, message) by invocation c: an
\* accepted PUT replaces the document, gives it a new sha and adds a commit
\* (base: the revision the new content was computed from)
Put(c, filePath, newContent, sha, reachable) ==
    LET status == PutStatus(filePath, sha, reachable)
    IN  /\ io' = [io EXCEPT ![c] = IoPut(c, filePath, sha, status)]
        /\ IF status = "ok"
           THEN /\ files' = [files EXCEPT ![filePath] =
                                [content |-> newContent, sha |-> @.sha + 1]]
                /\ commits' = Append(commits,
                                [filePath |-> filePath, by |-> c,
                                 parent |-> files[filePath].sha,
                                 base |-> local[c].sha])
           ELSE UNCHANGED <<files, commits>>

PutOk(filePath, sha, reachable) == PutStatus(filePath, sha, reachable) = "ok"

(***************************************************************************)
(* resolveImageReportV2 (lines 638-662).                                   *)
(***************************************************************************)
ResolveArgs ==
    { [reportId |-> "rep1", spotName |-> "A", newImageUrl |-> "newA", prefecture |-> "Tokyo"],
      [reportId |-> "rep2", spotName |-> "C", newImageUrl |-> "newC", prefecture |-> "Osaka"],
      [reportId |-> "rep1", spotName |-> "Z", newImageUrl |-> "newZ", prefecture |-> "Tokyo"],
      [reportId |-> "rep1", spotName |-> "A", newImageUrl |-> "newA", prefecture |-> "Kyoto"],
      [reportId |-> "rep1", spotName |-> "A", newImageUrl |-> Null, prefecture |-> "Tokyo"] }

\* lines 639-645
ResolveStart(c, caller, data, listed, readable) ==
    /\ pc[c] = "idle"
    /\ call' = [call EXCEPT ![c] =
                  [handler |-> "resolveImageReportV2", caller |-> caller, data |-> data]]
    /\ LET prefId == Lookup(GetPrefectureIdMap(listed, readable), data.prefecture)
       IN  IF ~IsAdmin(caller)
           THEN Finish(c, Failure("permission-denied")) /\ UNCHANGED local
           ELSE IF \E k \in {"reportId", "spotName", "newImageUrl", "prefecture"} :
                      data[k] \in {Null, ""}
           THEN Finish(c, Failure("invalid-argument")) /\ UNCHANGED local
           ELSE IF prefId = Null
           THEN Finish(c, Failure("invalid-argument")) /\ UNCHANGED local
           ELSE /\ Goto(c, "resolve:fetch")
                /\ local' = [local EXCEPT ![c].filePath = FilePath(prefId)]
    /\ io' = [io EXCEPT ![c] = IF IsAdmin(caller) /\ \A k \in {"reportId", "spotName", "newImageUrl", "prefecture"} :
                                    data[k] \notin {Null, ""}
                             THEN IoList(c, listed) ELSE @]
    /\ UNCHANGED <<imgVars, storeVars>>

\* lines 647-653: fetch, find the spot, set its image in the copy
ResolveFetch(c, ok) ==
    /\ pc[c] = "resolve:fetch"
    /\ LET f == local[c].filePath
           json == files[f].content
           spotIndex == FindIndex(json.spots, call[c].data.spotName)
       IN  /\ io' = [io EXCEPT ![c] = IoGet(c, f, ok)]
           /\ IF ~ok \/ spotIndex = 0
              THEN Finish(c, Failure("not-found")) /\ UNCHANGED local
              ELSE /\ Goto(c, "resolve:write")
                   /\ local' = [local EXCEPT
                        ![c].sha = files[f].sha,
                        ![c].currentJson =
                            [json EXCEPT
                               !.spots[spotIndex].image = call[c].data.newImageUrl,
                               !.spots[spotIndex].imageSource = "admin-update",
                               !.spots[spotIndex].imageSourceUrl = call[c].data.newImageUrl]]
    /\ UNCHANGED <<imgVars, storeVars, call>>

\* line 654 with the error of the write swallowed: the report is deleted
\* whatever the answer to the PUT
ResolveWriteSwallows(c, reachable) ==
    /\ pc[c] = "resolve:write"
    /\ Put(c, local[c].filePath, local[c].currentJson, WriteSha(c), reachable)
    /\ Goto(c, "resolve:delete")
    /\ UNCHANGED <<imgVars, dbVars, call, local>>

\* line 654, and the catch of lines 657-661 (an HttpsError is rethrown)
ResolveWrite(c, reachable) ==
    /\ pc[c] = "resolve:write"
    /\ Put(c, local[c].filePath, local[c].currentJson, WriteSha(c), reachable)
    /\ IF PutOk(local[c].filePath, WriteSha(c), reachable)
       THEN Goto(c, "resolve:delete")
       ELSE Finish(c, Failure(UpdateGitHubFileError(
                PutStatus(local[c].filePath, WriteSha(c), reachable))))
    /\ UNCHANGED <<imgVars, dbVars, call, local>>

\* lines 655-656
ResolveDelete(c) ==
    /\ pc[c] = "resolve:delete"
    /\ imageReports' = imageReports \ {call[c].data.reportId}
    /\ Finish(c, Success)
    /\ UNCHANGED <<imgVars, gitVars, editRequests, submissions, announcements, mailbox,
                   call, local, io>>

(***************************************************************************)
(* confirmImageUpdatesV2 (lines 720-753).                                  *)
(***************************************************************************)
UpdateOf(prefecture, spotName, newImageUrl, newImageSource, newImageSourceUrl) ==
    [prefecture |-> prefecture, spotName |-> spotName, newImageUrl |-> newImageUrl,
     newImageSource |-> newImageSource, newImageSourceUrl |-> newImageSourceUrl]

\* lines 725-733 as a mistaken grouping would do them: one group per update
RECURSIVE UpdatesOneByOne(_, _, _)
UpdatesOneByOne(map, updates, acc) ==
    IF updates = <<>> THEN acc
    ELSE LET update == Head(updates)
             prefId == Lookup(map, update.prefecture)
         IN  IF prefId = Null
             THEN UpdatesOneByOne(map, Tail(updates), acc)
             ELSE UpdatesOneByOne(map, Tail(updates),
                     Append(acc, [filePath |-> FilePath(prefId), updates |-> <<update>>]))

\* lines 725-733: the updates grouped by target document, the documents in
\* the order of their first update (the key order of for...in); updates of
\* a prefecture the map does not know are dropped
RECURSIVE UpdatesByFile(_, _, _)
UpdatesByFile(map, updates, acc) ==
    IF updates = <<>> THEN acc
    ELSE LET update == Head(updates)
             prefId == Lookup(map, update.prefecture)
             filePath == FilePath(prefId)
             known == {k \in 1..Len(acc) : acc[k].filePath = filePath}
         IN  IF prefId = Null
             THEN UpdatesByFile(map, Tail(updates), acc)
             ELSE IF known = {}
             THEN UpdatesByFile(map, Tail(updates),
                     Append(acc, [filePath |-> filePath, updates |-> <<update>>]))
             ELSE UpdatesByFile(map, Tail(updates),
                     [acc EXCEPT ![CHOOSE k \in known : TRUE].updates = Append(@, update)])

\* lines 739-746: fileUpdates.forEach on the fetched copy
RECURSIVE ApplyUpdates(_, _)
ApplyUpdates(json, fileUpdates) ==
    IF fileUpdates = <<>> THEN json
    ELSE LET update == Head(fileUpdates)
             spotIndex == FindIndex(json.spots, update.spotName)
         IN  ApplyUpdates(
                IF spotIndex = 0 THEN json
                ELSE [json EXCEPT
                        !.spots[spotIndex].image = update.newImageUrl,
                        !.spots[spotIndex].imageSource =
                            OrElse(update.newImageSource, "admin-batch-update"),
                        !.spots[spotIndex].imageSourceUrl =
                            OrElse(update.newImageSourceUrl, update.newImageUrl)],
                Tail(fileUpdates))

\* lines 721-735
ConfirmStart(c, caller, data, listed, readable) ==
    /\ pc[c] = "idle"
    /\ call' = [call EXCEPT ![c] =
                  [handler |-> "confirmImageUpdatesV2", caller |-> caller, data |-> data]]
    /\ LET groups == UpdatesByFile(GetPrefectureIdMap(listed, readable), data.updates, <<>>)
       IN  IF ~IsAdmin(caller)
           THEN Finish(c, Failure("permission-denied")) /\ UNCHANGED local
           ELSE IF data.updates = <<>>
           THEN Finish(c, Failure("invalid-argument")) /\ UNCHANGED local
           ELSE IF groups = <<>>
           THEN Finish(c, Success) /\ UNCHANGED local
           ELSE /\ Goto(c, "confirm:fetch")
                /\ local' = [local EXCEPT ![c].groups = groups, ![c].next = 1]
    /\ io' = [io EXCEPT ![c] = IF IsAdmin(caller) /\ data.updates # <<>>
                             THEN IoList(c, listed) ELSE @]
    /\ UNCHANGED <<imgVars, storeVars>>

\* the loop of line 735 without the try/catch of lines 736 and 750: a
\* document that fails ends the call
ConfirmAdvanceNoCatch(c, commitCount) ==
    IF commitCount = local[c].commitCount
    THEN /\ Finish(c, Failure("internal"))
         /\ local' = [local EXCEPT ![c].filePath = <<>>]
    ELSE IF local[c].next < Len(local[c].groups)
    THEN /\ Goto(c, "confirm:fetch")
         /\ local' = [local EXCEPT ![c].next = @ + 1, ![c].commitCount = commitCount,
                                   ![c].filePath = <<>>]
    ELSE /\ Finish(c, [Success EXCEPT !.count = commitCount])
         /\ local' = [local EXCEPT ![c].commitCount = commitCount, ![c].filePath = <<>>]

\* the end of one turn of the loop of line 735: the next document, or the
\* return of line 752
ConfirmAdvance(c, commitCount) ==
    IF local[c].next < Len(local[c].groups)
    THEN /\ Goto(c, "confirm:fetch")
         /\ local' = [local EXCEPT ![c].next = @ + 1, ![c].commitCount = commitCount,
                                   ![c].filePath = <<>>]
    ELSE /\ Finish(c, [Success EXCEPT !.count = commitCount])
         /\ local' = [local EXCEPT ![c].commitCount = commitCount, ![c].filePath = <<>>]

\* lines 737-746, and the catch of line 750 when the fetch throws
ConfirmFetch(c, ok) ==
    /\ pc[c] = "confirm:fetch"
    /\ LET group == local[c].groups[local[c].next]
           f == group.filePath
       IN  /\ io' = [io EXCEPT ![c] = IoGet(c, f, ok)]
           /\ IF ok
              THEN /\ Goto(c, "confirm:write")
                   /\ local' = [local EXCEPT
                        ![c].filePath = f,
                        ![c].sha = files[f].sha,
                        ![c].currentJson = ApplyUpdates(files[f].content, group.updates)]
              ELSE ConfirmAdvance(c, local[c].commitCount)
    /\ UNCHANGED <<imgVars, storeVars, call>>

\* lines 748-750 with commitCount++ moved before the write: every attempted
\* write is counted
ConfirmWriteCountsAttempts(c, reachable) ==
    /\ pc[c] = "confirm:write"
    /\ Put(c, local[c].filePath, local[c].currentJson, WriteSha(c), reachable)
    /\ ConfirmAdvance(c, local[c].commitCount + 1)
    /\ UNCHANGED <<imgVars, dbVars, call>>

\* lines 748-750: the write, commitCount++, and the catch when it throws
ConfirmWrite(c, reachable) ==
    /\ pc[c] = "confirm:write"
    /\ Put(c, local[c].filePath, local[c].currentJson, WriteSha(c), reachable)
    /\ IF PutOk(local[c].filePath, WriteSha(c), reachable)
       THEN ConfirmAdvance(c, local[c].commitCount + 1)
       ELSE ConfirmAdvance(c, local[c].commitCount)
    /\ UNCHANGED <<imgVars, dbVars, call>>

(***************************************************************************)
(* handleEditRequestV2 (lines 167-273). The handler has no try/catch: an   *)
(* HttpsError reaches the caller as thrown, any other error as "internal". *)
(***************************************************************************)
\* a field of request.data, or of an object in it, that may be absent
Has(data, k) == k \in DOMAIN data /\ data[k] \notin {Null, ""}

RemoveAt(seq, i) == SubSeq(seq, 1, i - 1) \o SubSeq(seq, i + 1, Len(seq))

EditArgs ==
    { [requestId |-> "req1", action |-> "approve", updates |-> [image |-> "editA"]],
      [requestId |-> "req2", action |-> "approve"],
      [requestId |-> "req1", action |-> "reject"],
      [requestId |-> "req1", action |-> "approve"],
      [requestId |-> "req1", action |-> "archive"],
      [requestId |-> "req9", action |-> "approve"],
      [action |-> "approve"] }

\* lines 247-253
ApplyEdit(spot, updates) ==
    [spot EXCEPT
        !.name = IF Has(updates, "title") THEN updates.title ELSE @,
        !.image = IF Has(updates, "image") THEN updates.image ELSE @,
        !.imageSource = IF Has(updates, "image") THEN "admin-update" ELSE @,
        !.imageSourceUrl = IF Has(updates, "image") THEN updates.image ELSE @,
        !.tags = IF Has(updates, "tags") THEN updates.tags ELSE @]

\* lines 168-221: the checks, the read of the request and, to approve, the
\* prefecture map; doc(undefined) throws when requestId is absent
EditStart(c, caller, data, listed, readable) ==
    /\ pc[c] = "idle"
    /\ call' = [call EXCEPT ![c] =
                  [handler |-> "handleEditRequestV2", caller |-> caller, data |-> data]]
    /\ IF ~IsAdmin(caller)
       THEN Finish(c, Failure("permission-denied")) /\ UNCHANGED local
       ELSE IF ~Has(data, "requestId")
       THEN Finish(c, Failure("internal")) /\ UNCHANGED local
       ELSE IF data.requestId \notin DOMAIN editRequests
       THEN Finish(c, Failure("not-found")) /\ UNCHANGED local
       ELSE LET requestData == editRequests[data.requestId]
                prefId == Lookup(GetPrefectureIdMap(listed, readable),
                                 requestData.prefecture)
            IN  IF data.action = "reject"
                THEN /\ Goto(c, "edit:reject")
                     /\ local' = [local EXCEPT ![c].requestData = requestData]
                ELSE IF data.action # "approve" \/ prefId = Null
                THEN Finish(c, Failure("invalid-argument")) /\ UNCHANGED local
                ELSE /\ Goto(c, "edit:fetch")
                     /\ local' = [local EXCEPT ![c].requestData = requestData,
                                               ![c].filePath = FilePath(prefId)]
    /\ io' = [io EXCEPT ![c] = IF /\ IsAdmin(caller) /\ Has(data, "requestId")
                        /\ data.requestId \in DOMAIN editRequests
                        /\ data.action = "approve"
                             THEN IoList(c, listed) ELSE @]
    /\ UNCHANGED <<imgVars, storeVars>>

\* lines 183-193 writing the notification under one fixed id per user: a
\* new notification replaces the one before
NotifiedUnderFixedId(requestData, title) ==
    IF Has(requestData, "submittedBy")
    THEN [mailbox EXCEPT ![requestData.submittedBy] = <<title>>]
    ELSE mailbox

\* lines 183-193: the mailbox entry of the batch, when the request names
\* its submitter
Notified(requestData, title) ==
    IF Has(requestData, "submittedBy")
    THEN [mailbox EXCEPT ![requestData.submittedBy] = Append(@, title)]
    ELSE mailbox

\* lines 204-213 with createPublicAnnouncement added to the batch
EditRejectAnnounces(c) ==
    /\ pc[c] = "edit:reject"
    /\ editRequests' = [editRequests EXCEPT ![call[c].data.requestId].status = "rejected"]
    /\ mailbox' = Notified(local[c].requestData, "request-rejected")
    /\ announcements' = Append(announcements, "request-rejected")
    /\ Finish(c, Success)
    /\ UNCHANGED <<imgVars, gitVars, imageReports, submissions, call, local, io>>

\* lines 204-213: batch.commit() of the rejection
EditReject(c) ==
    /\ pc[c] = "edit:reject"
    /\ editRequests' = [editRequests EXCEPT ![call[c].data.requestId].status = "rejected"]
    /\ mailbox' = Notified(local[c].requestData, "request-rejected")
    /\ Finish(c, Success)
    /\ UNCHANGED <<imgVars, gitVars, imageReports, submissions, announcements,
                   call, local, io>>

\* lines 223-259: fetch, find the spot, change the copy
EditFetch(c, ok) ==
    /\ pc[c] = "edit:fetch"
    /\ LET f == local[c].filePath
           json == files[f].content
           requestData == local[c].requestData
           spotIndex == FindIndex(json.spots, requestData.spotName)
       IN  /\ io' = [io EXCEPT ![c] = IoGet(c, f, ok)]
           /\ IF ~ok
              THEN Finish(c, Failure("not-found")) /\ UNCHANGED local
              ELSE IF spotIndex = 0
              THEN Goto(c, "edit:autoreject") /\ UNCHANGED local
              ELSE IF requestData.requestType = "delete"
              THEN /\ Goto(c, "edit:write")
                   /\ local' = [local EXCEPT
                        ![c].sha = files[f].sha,
                        ![c].announcement = "spot-deleted",
                        ![c].currentJson =
                            [json EXCEPT !.spots = RemoveAt(@, spotIndex)]]
              ELSE IF "updates" \notin DOMAIN call[c].data
              THEN Finish(c, Failure("internal")) /\ UNCHANGED local
              ELSE /\ Goto(c, "edit:write")
                   /\ local' = [local EXCEPT
                        ![c].sha = files[f].sha,
                        ![c].announcement = "spot-updated",
                        ![c].currentJson =
                            [json EXCEPT !.spots[spotIndex] =
                                ApplyEdit(@, call[c].data.updates)]]
    /\ UNCHANGED <<imgVars, storeVars, call>>

\* lines 226-230 with the notification of the reject branch added to the
\* batch
EditAutoRejectNotifies(c) ==
    /\ pc[c] = "edit:autoreject"
    /\ editRequests' = [editRequests EXCEPT ![call[c].data.requestId].status = "rejected"]
    /\ mailbox' = Notified(local[c].requestData, "request-rejected")
    /\ Finish(c, Failure("not-found"))
    /\ UNCHANGED <<imgVars, gitVars, imageReports, submissions, announcements,
                   call, local, io>>

\* lines 226-230: the spot is gone; the request is rejected, then not-found
EditAutoReject(c) ==
    /\ pc[c] = "edit:autoreject"
    /\ editRequests' = [editRequests EXCEPT ![call[c].data.requestId].status = "rejected"]
    /\ Finish(c, Failure("not-found"))
    /\ UNCHANGED <<imgVars, gitVars, imageReports, submissions, announcements, mailbox,
                   call, local, io>>

\* line 261 with the error of updateGitHubFile ignored
EditWriteSwallows(c, reachable) ==
    /\ pc[c] = "edit:write"
    /\ Put(c, local[c].filePath, local[c].currentJson, WriteSha(c), reachable)
    /\ Goto(c, "edit:commit")
    /\ UNCHANGED <<imgVars, dbVars, call, local>>

\* line 261
EditWrite(c, reachable) ==
    /\ pc[c] = "edit:write"
    /\ Put(c, local[c].filePath, local[c].currentJson, WriteSha(c), reachable)
    /\ IF PutOk(local[c].filePath, WriteSha(c), reachable)
       THEN Goto(c, "edit:commit")
       ELSE Finish(c, Failure(UpdateGitHubFileError(
                PutStatus(local[c].filePath, WriteSha(c), reachable))))
    /\ UNCHANGED <<imgVars, dbVars, call, local>>

\* lines 263-269: batch.commit() of the approval
EditCommit(c) ==
    /\ pc[c] = "edit:commit"
    /\ editRequests' = [editRequests EXCEPT ![call[c].data.requestId].status = "approved"]
    /\ mailbox' = Notified(local[c].requestData, "request-approved")
    /\ announcements' = Append(announcements, local[c].announcement)
    /\ Finish(c, Success)
    /\ UNCHANGED <<imgVars, gitVars, imageReports, submissions, call, local, io>>

(***************************************************************************)
(* directAdminSpotUpdateV2 (lines 275-336).                                *)
(***************************************************************************)
AdminArgs ==
    { [prefecture |-> "Tokyo", spotName |-> "A", action |-> "update",
       updateData |-> [image |-> "adminA"]],
      [prefecture |-> "Tokyo", spotName |-> "B", action |-> "update",
       updateData |-> [area |-> "Ginza"]],
      [prefecture |-> "Tokyo", spotName |-> "B", action |-> "delete"],
      [prefecture |-> "Tokyo", spotName |-> "Z", action |-> "delete"],
      [prefecture |-> "Tokyo", spotName |-> "A", action |-> "update"],
      [prefecture |-> "Tokyo", spotName |-> "A", action |-> "archive"],
      [prefecture |-> "Kyoto", spotName |-> "A", action |-> "delete"],
      [spotName |-> "A", action |-> "delete"] }

\* { ...spot, ...updateData }
Merge(spot, updateData) ==
    [k \in DOMAIN spot \cup DOMAIN updateData |->
        IF k \in DOMAIN updateData THEN updateData[k] ELSE spot[k]]

\* lines 276-291
AdminStart(c, caller, data, listed, readable) ==
    /\ pc[c] = "idle"
    /\ call' = [call EXCEPT ![c] =
                  [handler |-> "directAdminSpotUpdateV2", caller |-> caller, data |-> data]]
    /\ IF ~IsAdmin(caller)
       THEN Finish(c, Failure("permission-denied")) /\ UNCHANGED local
       ELSE IF \E k \in {"prefecture", "spotName", "action"} : ~Has(data, k)
       THEN Finish(c, Failure("invalid-argument")) /\ UNCHANGED local
       ELSE LET prefId == Lookup(GetPrefectureIdMap(listed, readable), data.prefecture)
            IN  IF prefId = Null
                THEN Finish(c, Failure("invalid-argument")) /\ UNCHANGED local
                ELSE /\ Goto(c, "admin:fetch")
                     /\ local' = [local EXCEPT ![c].filePath = FilePath(prefId)]
    /\ io' = [io EXCEPT ![c] = IF IsAdmin(caller) /\ \A k \in {"prefecture", "spotName", "action"} : Has(data, k)
                             THEN IoList(c, listed) ELSE @]
    /\ UNCHANGED <<imgVars, storeVars>>

\* lines 294-318, and the catch of lines 331-335
AdminFetch(c, ok) ==
    /\ pc[c] = "admin:fetch"
    /\ LET f == local[c].filePath
           json == files[f].content
           data == call[c].data
           spotIndex == FindIndex(json.spots, data.spotName)
       IN  /\ io' = [io EXCEPT ![c] = IoGet(c, f, ok)]
           /\ IF ~ok \/ spotIndex = 0
              THEN Finish(c, Failure("not-found")) /\ UNCHANGED local
              ELSE IF data.action = "delete"
              THEN /\ Goto(c, "admin:write")
                   /\ local' = [local EXCEPT
                        ![c].sha = files[f].sha,
                        ![c].announcement = "spot-deleted",
                        ![c].currentJson =
                            [json EXCEPT !.spots = RemoveAt(@, spotIndex)]]
              ELSE IF data.action = "update" /\ "updateData" \in DOMAIN data
              THEN /\ Goto(c, "admin:write")
                   /\ local' = [local EXCEPT
                        ![c].sha = files[f].sha,
                        ![c].announcement = "spot-updated",
                        ![c].currentJson =
                            [json EXCEPT !.spots[spotIndex] = Merge(@, data.updateData)]]
              ELSE Finish(c, Failure("invalid-argument")) /\ UNCHANGED local
    /\ UNCHANGED <<imgVars, storeVars, call>>

\* line 320
AdminWrite(c, reachable) ==
    /\ pc[c] = "admin:write"
    /\ Put(c, local[c].filePath, local[c].currentJson, WriteSha(c), reachable)
    /\ IF PutOk(local[c].filePath, WriteSha(c), reachable)
       THEN Goto(c, "admin:announce")
       ELSE Finish(c, Failure(UpdateGitHubFileError(
                PutStatus(local[c].filePath, WriteSha(c), reachable))))
    /\ UNCHANGED <<imgVars, dbVars, call, local>>

\* lines 322-329
AdminAnnounce(c) ==
    /\ pc[c] = "admin:announce"
    /\ announcements' = Append(announcements, local[c].announcement)
    /\ Finish(c, Success)
    /\ UNCHANGED <<imgVars, gitVars, imageReports, editRequests, submissions, mailbox,
                   call, local, io>>

(***************************************************************************)
(* approveSubmissionV2 (lines 585-636).                                    *)
(***************************************************************************)
SubmissionOf(prefecture, name, area, isNewArea) ==
    [prefecture |-> prefecture, name |-> name, area |-> area, tags |-> "tags0",
     website |-> "site-of-" \o name, isNewArea |-> isNewArea]

\* a submission of a spot in a new area, with the area's position and its
\* travel times to the areas already there
NewAreaSubmission ==
    [k \in DOMAIN SubmissionOf("Tokyo", "M", "Shinjuku", TRUE)
            \cup {"newAreaPosition", "newTransitData"} |->
        CASE k = "newAreaPosition" -> [top |-> "10%", left |-> "20%"]
          [] k = "newTransitData" -> [Shibuya |-> "20min"]
          [] OTHER -> SubmissionOf("Tokyo", "M", "Shinjuku", TRUE)[k]]

\* another one, submitted while the first was still pending: its travel
\* times name the area the first submission proposes
SecondAreaSubmission ==
    [k \in DOMAIN SubmissionOf("Tokyo", "Q", "Ueno", TRUE)
            \cup {"newAreaPosition", "newTransitData"} |->
        CASE k = "newAreaPosition" -> [top |-> "30%", left |-> "40%"]
          [] k = "newTransitData" -> [Shibuya |-> "10min", Shinjuku |-> "15min"]
          [] OTHER -> SubmissionOf("Tokyo", "Q", "Ueno", TRUE)[k]]

ApproveArgs ==
    { [submissionId |-> "sub1", approveNewArea |-> FALSE,
       submissionData |-> SubmissionOf("Tokyo", "N", "Shibuya", FALSE)],
      [submissionId |-> "sub1", approveNewArea |-> TRUE,
       submissionData |-> SecondAreaSubmission],
      [submissionId |-> "sub2", approveNewArea |-> TRUE,
       submissionData |-> NewAreaSubmission],
      [submissionId |-> "sub2", approveNewArea |-> FALSE,
       submissionData |-> NewAreaSubmission],
      [submissionId |-> "sub1", approveNewArea |-> FALSE,
       submissionData |-> SubmissionOf("Kyoto", "N", "Gion", FALSE)],
      [submissionId |-> "sub1", approveNewArea |-> FALSE],
      [approveNewArea |-> FALSE,
       submissionData |-> SubmissionOf("Osaka", "P", "Umeda", FALSE)] }

\* what the image search of line 596 may meet
ApproveSearches ==
    { [search |-> [kind |-> "notok", items |-> <<>>], answers |-> <<>>],
      [search |-> [kind |-> "noitems", items |-> <<>>], answers |-> <<>>],
      [search |-> [kind |-> "ok",
                   items |-> <<[link |-> "found1", contextLink |-> "page1",
                                displayLink |-> "site1"]>>],
       answers |-> <<[kind |-> "text", text |-> Yes]>>] }

\* lines 597-604
NewSpotData(submissionData, candidates) ==
    [prefecture |-> submissionData.prefecture, name |-> submissionData.name,
     area |-> submissionData.area, tags |-> submissionData.tags,
     image |-> IF candidates # <<>> THEN candidates[1].url
               ELSE "placeholder-" \o submissionData.name,
     imageSource |-> IF candidates # <<>> THEN candidates[1].displayLink
                     ELSE "user-suggestion",
     imageSourceUrl |-> IF candidates # <<>> THEN candidates[1].sourceLink
                        ELSE submissionData.website]

\* obj[k] = v on an object that may lack the key
SetKey(obj, k, v) == [x \in DOMAIN obj \cup {k} |-> IF x = k THEN v ELSE obj[x]]

\* lines 612-617: the new area's row, and the new area in the row of every
\* area it names
WithTransit(json, newAreaName, newTransitData) ==
    LET transit0 == IF "transitData" \in DOMAIN json THEN json.transitData ELSE <<>>
        transit1 == SetKey(transit0, newAreaName, newTransitData)
        transit2 == [a \in DOMAIN transit1 \cup DOMAIN newTransitData |->
                        IF a \in DOMAIN newTransitData
                        THEN SetKey(IF a \in DOMAIN transit1 THEN transit1[a] ELSE <<>>,
                                    newAreaName, newTransitData[a])
                        ELSE transit1[a]]
    IN  SetKey(json, "transitData", transit2)

\* lines 608-621
WithNewArea(json, submissionData) ==
    LET newArea == [name |-> submissionData.area,
                    top |-> submissionData.newAreaPosition.top,
                    left |-> submissionData.newAreaPosition.left]
        placed == [json EXCEPT !.areaPositions = Append(@, newArea)]
    IN  IF "newTransitData" \in DOMAIN submissionData
        THEN WithTransit(placed, newArea.name, submissionData.newTransitData)
        ELSE placed

\* lines 586-593: submissionData.prefecture of an absent submissionData
\* throws outside the try
ApproveStart(c, caller, data, listed, readable) ==
    /\ pc[c] = "idle"
    /\ call' = [call EXCEPT ![c] =
                  [handler |-> "approveSubmissionV2", caller |-> caller, data |-> data]]
    /\ IF ~IsAdmin(caller)
       THEN Finish(c, Failure("permission-denied")) /\ UNCHANGED local
       ELSE IF "submissionData" \notin DOMAIN data
       THEN Finish(c, Failure("internal")) /\ UNCHANGED local
       ELSE LET prefId == Lookup(GetPrefectureIdMap(listed, readable),
                                 data.submissionData.prefecture)
            IN  IF prefId = Null
                THEN Finish(c, Failure("invalid-argument")) /\ UNCHANGED local
                ELSE /\ Goto(c, "approve:fetch")
                     /\ local' = [local EXCEPT ![c].filePath = FilePath(prefId)]
    /\ io' = [io EXCEPT ![c] = IF IsAdmin(caller)
                             THEN IoList(c, listed) ELSE @]
    /\ UNCHANGED <<imgVars, storeVars>>

\* line 595
ApproveFetch(c, ok) ==
    /\ pc[c] = "approve:fetch"
    /\ io' = [io EXCEPT ![c] = IoGet(c, local[c].filePath, ok)]
    /\ IF ~ok
       THEN Finish(c, Failure("not-found")) /\ UNCHANGED local
       ELSE /\ Goto(c, "approve:search")
            /\ local' = [local EXCEPT
                 ![c].sha = files[local[c].filePath].sha,
                 ![c].currentJson = files[local[c].filePath].content]
    /\ UNCHANGED <<imgVars, storeVars, call>>

\* lines 596-621: the image search, then the new spot (and area) in the copy
ApproveSearch(c, found) ==
    /\ pc[c] = "approve:search"
    /\ LET submissionData == call[c].data.submissionData
           imageResult == FetchImageForSpotLogic(found.search, found.answers, Null)
           pushed == [local[c].currentJson EXCEPT
                        !.spots = Append(@, NewSpotData(submissionData,
                                                        imageResult.candidates))]
           newArea == submissionData.isNewArea /\ call[c].data.approveNewArea
       IN  IF imageResult.threw
           THEN Finish(c, Failure(imageResult.code)) /\ UNCHANGED local
           ELSE /\ Goto(c, "approve:write")
                /\ local' = [local EXCEPT
                     ![c].announcement = IF newArea THEN "area-added" ELSE "spot-added",
                     ![c].currentJson = IF newArea
                                        THEN WithNewArea(pushed, submissionData)
                                        ELSE pushed]
    /\ UNCHANGED <<imgVars, storeVars, call, io>>

\* line 623 with the error of updateGitHubFile ignored
ApproveWriteSwallows(c, reachable) ==
    /\ pc[c] = "approve:write"
    /\ Put(c, local[c].filePath, local[c].currentJson, WriteSha(c), reachable)
    /\ Goto(c, "approve:commit")
    /\ UNCHANGED <<imgVars, dbVars, call, local>>

\* line 623
ApproveWrite(c, reachable) ==
    /\ pc[c] = "approve:write"
    /\ Put(c, local[c].filePath, local[c].currentJson, WriteSha(c), reachable)
    /\ IF PutOk(local[c].filePath, WriteSha(c), reachable)
       THEN Goto(c, "approve:commit")
       ELSE Finish(c, Failure(UpdateGitHubFileError(
                PutStatus(local[c].filePath, WriteSha(c), reachable))))
    /\ UNCHANGED <<imgVars, dbVars, call, local>>

\* lines 624-630, and the catch of lines 631-635: doc(submissionId) throws
\* when submissionId is absent, before the batch is built
ApproveCommit(c) ==
    /\ pc[c] = "approve:commit"
    /\ IF Has(call[c].data, "submissionId")
       THEN /\ submissions' = submissions \ {call[c].data.submissionId}
            /\ announcements' = Append(announcements, local[c].announcement)
            /\ Finish(c, Success)
       ELSE /\ Finish(c, Failure("internal"))
            /\ UNCHANGED <<submissions, announcements>>
    /\ UNCHANGED <<imgVars, gitVars, imageReports, editRequests, mailbox,
                   call, local, io>>

(***************************************************************************)
(* SpecConfirm: confirmImageUpdatesV2 over lists of up to MaxUpdates       *)
(* updates, racing with resolveImageReportV2 on the same documents.        *)
(***************************************************************************)
UpdateChoices ==
    { UpdateOf("Tokyo", "A", "newA", "siteA", "pageA"),
      UpdateOf("Tokyo", "B", "newB", Null, Null),
      UpdateOf("Osaka", "C", "newC", Null, Null),
      UpdateOf("Okayama", "D", "newD", "siteD", Null),
      UpdateOf("Osaka", "Z", "newZ", Null, Null),
      UpdateOf("Kyoto", "K", "newK", Null, Null) }

ConfirmArgs ==
    {[updates |-> us] : us \in UNION {[1..n -> UpdateChoices] : n \in 0..MaxUpdates}}

ConfirmSteps(c) ==
    \/ \E ok \in BOOLEAN : ConfirmFetch(c, ok)
    \/ \E reachable \in BOOLEAN : ConfirmWrite(c, reachable)

ResolveSteps(c) ==
    \/ \E ok \in BOOLEAN : ResolveFetch(c, ok)
    \/ \E reachable \in BOOLEAN : ResolveWrite(c, reachable)
    \/ ResolveDelete(c)

\* what the reads of getPrefectureIdMap may meet: the directory listing
\* fails, or it succeeds and some of the documents can be read
MapReads ==
    {<<FALSE, {}>>} \cup {<<TRUE, readable>> : readable \in SUBSET RegionIds}

\* the rival writer's requests: one on a document of two spots, one on a
\* document of one
RivalArgs == {data \in ResolveArgs : data.reportId # Null /\ data.newImageUrl # Null
                                      /\ data.spotName \in {"A", "C"}
                                      /\ data.prefecture # "Kyoto"}

\* one confirmImageUpdatesV2 invocation (c1) and one concurrent
\* resolveImageReportV2 invocation (c2) by an administrator
NextConfirm ==
    \/ /\ pc["c1"] = "idle"
       /\ \/ \E caller \in Callers \ {"admin"}, data \in ConfirmArgs :
                ConfirmStart("c1", caller, data, FALSE, {})
          \/ \E data \in ConfirmArgs, m \in MapReads :
                ConfirmStart("c1", "admin", data, m[1], m[2])
    \/ ConfirmSteps("c1")
    \/ /\ pc["c2"] = "idle"
       /\ \E data \in RivalArgs : ResolveStart("c2", "admin", data, FALSE, {})
    \/ ResolveSteps("c2")

SpecConfirm == Init /\ [][NextConfirm]_vars

(***************************************************************************)
(* Claims about confirmImageUpdatesV2 (checked under SpecConfirm, where    *)
(* c1 is the confirmImageUpdatesV2 invocation).                            *)
(***************************************************************************)
ConfirmReturned ==
    /\ pc["c1"] = "done"
    /\ call["c1"].handler = "confirmImageUpdatesV2"
    /\ outcome["c1"].kind = "success"

ConfirmEnded ==
    /\ pc["c1"] = "done"
    /\ call["c1"].handler = "confirmImageUpdatesV2"

\* the documents the invocation's updates are grouped under, in loop order
TargetsOf(c) == [k \in 1..Len(local[c].groups) |-> local[c].groups[k].filePath]

Failed(c, filePath) == io[c].fate[filePath] \in {"fetch-failed", "write-failed"}

CommittedBy(c, filePath) ==
    \E k \in 1..Len(commits) : commits[k].by = c /\ commits[k].filePath = filePath

\* C9: when confirmImageUpdatesV2 returns, every target document has been
\* fetched; each one whose fetch and write did not fail has been written and
\* its commit stands, whichever documents failed before or after it; so with
\* exactly one failing document the other N-1 are committed.
C9_FailureIsolatedPerDocument ==
    ConfirmEnded =>
        LET targets == TargetsOf("c1")
            failed == {k \in 1..Len(targets) : Failed("c1", targets[k])}
            written == {k \in 1..Len(targets) : io["c1"].fate[targets[k]] = "written"}
        IN  /\ \A k \in 1..Len(targets) :
                  /\ io["c1"].gets[targets[k]] >= 1
                  /\ k \in failed \/ k \in written
                  /\ k \in written => CommittedBy("c1", targets[k])
            /\ Cardinality(failed) = 1 => Cardinality(written) = Len(targets) - 1

\* three documents, the second fails on a stale sha, the first and the
\* third are committed
C9_Witness ==
    /\ ConfirmReturned
    /\ Len(local["c1"].groups) = 3
    /\ io["c1"].fate[TargetsOf("c1")[1]] = "written"
    /\ io["c1"].fate[TargetsOf("c1")[2]] = "write-failed"
    /\ io["c1"].fate[TargetsOf("c1")[3]] = "written"
    /\ CommittedBy("c1", TargetsOf("c1")[3])

\* the last commit made to a document
LastCommit(filePath) ==
    LET ks == {k \in 1..Len(commits) : commits[k].filePath = filePath}
    IN  commits[CHOOSE k \in ks : \A j \in ks : j <= k]

\* the updates of the list us that name the spot of a document
UpdatesNaming(us, json, spot) ==
    {k \in 1..Len(us) : us[k].prefecture = json.name /\ us[k].spotName = spot.name}

CommitsBy(c) == {k \in 1..Len(commits) : commits[k].by = c}

\* C11: the count confirmImageUpdatesV2 reports is the number of documents
\* whose write succeeded in the invocation: commitCount grows by one with
\* each accepted write and with nothing else, so a document whose fetch or
\* write failed is never counted.
C11_CountIsSuccessfulWrites ==
    call["c1"].handler = "confirmImageUpdatesV2" =>
        LET written == {f \in FilePaths : io["c1"].fate[f] = "written"}
        IN  /\ local["c1"].commitCount = Cardinality(written)
            /\ local["c1"].commitCount = Cardinality(CommitsBy("c1"))
            /\ \A f \in FilePaths : Failed("c1", f) => ~ CommittedBy("c1", f)
            /\ ConfirmReturned => outcome["c1"].count = Cardinality(written)

\* three documents: one fetch fails, one write is refused, one is written;
\* the count is 1
C11_Witness ==
    /\ ConfirmReturned
    /\ Len(local["c1"].groups) = 3
    /\ \E f \in FilePaths : io["c1"].fate[f] = "fetch-failed"
    /\ \E f \in FilePaths : io["c1"].fate[f] = "write-failed"
    /\ \E f \in FilePaths : io["c1"].fate[f] = "written"
    /\ outcome["c1"].count = 1

(***************************************************************************)
(* Spec: the five callables that write a region's document, invoked        *)
(* concurrently (Cloud Functions runs every invocation on its own).        *)
(***************************************************************************)
\* the requests confirmImageUpdatesV2 is called with here
WriterConfirmArgs ==
    { [updates |-> <<>>],
      [updates |-> <<UpdateOf("Tokyo", "A", "newA", "siteA", "pageA")>>],
      [updates |-> <<UpdateOf("Tokyo", "B", "newB", Null, Null),
                     UpdateOf("Osaka", "C", "newC", Null, Null)>>],
      [updates |-> <<UpdateOf("Kyoto", "K", "newK", Null, Null)>>] }

EditSteps(c) ==
    \/ EditReject(c)
    \/ \E ok \in BOOLEAN : EditFetch(c, ok)
    \/ EditAutoReject(c)
    \/ \E reachable \in BOOLEAN : EditWrite(c, reachable)
    \/ EditCommit(c)

AdminSteps(c) ==
    \/ \E ok \in BOOLEAN : AdminFetch(c, ok)
    \/ \E reachable \in BOOLEAN : AdminWrite(c, reachable)
    \/ AdminAnnounce(c)

ApproveSteps(c) ==
    \/ \E ok \in BOOLEAN : ApproveFetch(c, ok)
    \/ \E found \in ApproveSearches : ApproveSearch(c, found)
    \/ \E reachable \in BOOLEAN : ApproveWrite(c, reachable)
    \/ ApproveCommit(c)

\* a client calls one of the callables
Invoke(c) ==
    /\ pc[c] = "idle"
    /\ \E caller \in Callers, m \in MapReads :
          \/ \E data \in EditArgs : EditStart(c, caller, data, m[1], m[2])
          \/ \E data \in AdminArgs : AdminStart(c, caller, data, m[1], m[2])
          \/ \E data \in ApproveArgs : ApproveStart(c, caller, data, m[1], m[2])
          \/ \E data \in ResolveArgs : ResolveStart(c, caller, data, m[1], m[2])
          \/ \E data \in WriterConfirmArgs : ConfirmStart(c, caller, data, m[1], m[2])

Next ==
    \E c \in Procs :
        \/ Invoke(c)
        \/ EditSteps(c)
        \/ AdminSteps(c)
        \/ ApproveSteps(c)
        \/ ResolveSteps(c)
        \/ ConfirmSteps(c)

Spec == Init /\ [][Next]_vars

(***************************************************************************)
(* Claims about the writes of a region's document (checked under Spec).    *)
(***************************************************************************)
\* invocation c sends a PUT in this step
SendsPut(c) == \E f \in FilePaths : io'[c].puts[f] = io[c].puts[f] + 1

\* C1: a write (updateGitHubFile) sent with a revision token other than the
\* document's current one is rejected with a Conflict error, a kind distinct
\* from Internal, and the stored document is left unchanged.
C1_StaleWriteIsConflict ==
    [][\A c \in Procs :
          (SendsPut(c) /\ io'[c].put.sha # files[io'[c].put.filePath].sha) =>
              /\ files' = files
              /\ io'[c].err = "conflict"]_vars

\* C2: of the writers that fetched the same revision of a document at most
\* one commits; every commit was computed from the revision it replaces, so
\* no committed change is overwritten unseen; a writer whose revision is
\* stale gets its write refused and commits nothing with it.
C2_NoLostUpdate ==
    /\ \A k \in 1..Len(commits) :
          /\ commits[k].base = commits[k].parent
          /\ \A j \in 1..Len(commits) :
                (j # k /\ commits[j].filePath = commits[k].filePath) =>
                    commits[j].base # commits[k].base
    /\ \A f \in FilePaths :
          files[f].sha = 1 + Cardinality({k \in 1..Len(commits) : commits[k].filePath = f})
    /\ \A c \in Procs :
          io[c].put.status = "conflict" =>
              /\ io[c].fate[io[c].put.filePath] = "write-failed"
              /\ ~ \E k \in 1..Len(commits) :
                      /\ commits[k].by = c
                      /\ commits[k].filePath = io[c].put.filePath
                      /\ commits[k].base = io[c].put.sha

\* handleEditRequestV2 and resolveImageReportV2 both fetched the first
\* revision of the same document; the first to write committed, the other's
\* write was refused
C2_Witness ==
    /\ call["c1"].handler = "handleEditRequestV2"
    /\ call["c2"].handler = "resolveImageReportV2"
    /\ \E k \in 1..Len(commits) :
          /\ commits[k].by = "c1"
          /\ commits[k].base = 1
          /\ io["c2"].put = [filePath |-> commits[k].filePath, sha |-> 1,
                             status |-> "conflict"]
          /\ files[commits[k].filePath].sha = 2
          /\ ~ CommittedBy("c2", commits[k].filePath)
    /\ pc["c2"] = "done"
    /\ outcome["c2"].kind = "error"

\* C3: no handler returns a success result for an invocation in which one
\* of its document writes was rejected as stale; the rejection reaches the
\* caller as an error outcome.
C3_StaleWriteReported ==
    \A c \in Procs :
        (pc[c] = "done" /\ io[c].stale # {}) => outcome[c].kind = "error"

\* the payload of invocation c lacks a field its handler requires
LacksRequiredField(c) ==
    LET data == call[c].data
    IN  CASE call[c].handler = "handleEditRequestV2" ->
                \/ ~ Has(data, "requestId")
                \/ /\ data.requestId \in DOMAIN editRequests
                   /\ data.action = "approve"
                   /\ editRequests[data.requestId].requestType = "edit"
                   /\ "updates" \notin DOMAIN data
          [] call[c].handler = "directAdminSpotUpdateV2" ->
                \E k \in {"prefecture", "spotName", "action"} : ~ Has(data, k)
          [] call[c].handler = "approveSubmissionV2" ->
                "submissionData" \notin DOMAIN data \/ ~ Has(data, "submissionId")
          [] call[c].handler = "resolveImageReportV2" ->
                \E k \in {"reportId", "spotName", "newImageUrl", "prefecture"} :
                    ~ Has(data, k)
          [] call[c].handler = "confirmImageUpdatesV2" -> data.updates = <<>>
          [] OTHER -> FALSE

\* C16: a call by an administrator whose payload lacks a required field
\* ends with invalid-argument and changes nothing: in particular
\* handleEditRequestV2 without requestId or without updates on an approved
\* edit, and approveSubmissionV2 without submissionData or submissionId.
C16_MissingFieldIsInvalidArgument ==
    \A c \in Procs :
        (pc[c] = "done" /\ call[c].caller = "admin" /\ LacksRequiredField(c)) =>
            /\ outcome[c] = Failure("invalid-argument")
            /\ CommitsBy(c) = {}

\* C18: an edit request starts pending and, once approved or rejected, is
\* never changed again: whatever handleEditRequestV2 calls follow, its
\* status stays what it is and no document write is made on its behalf.
C18_ResolvedRequestIsFinal ==
    [][\A id \in DOMAIN editRequests :
          editRequests[id].status \in {"approved", "rejected"} =>
              /\ editRequests'[id] = editRequests[id]
              /\ \A c \in Procs :
                    (call[c].handler = "handleEditRequestV2"
                        /\ Has(call[c].data, "requestId")
                        /\ call[c].data.requestId = id) =>
                            io'[c].puts = io[c].puts]_vars

\* invocation c approves a request and its fetch, in this step, returns a
\* document without the request's spot
FetchesWithoutSpot(c) ==
    /\ pc[c] = "edit:fetch"
    /\ pc'[c] # "edit:fetch"
    /\ io'[c].fate[local[c].filePath] # "fetch-failed"
    /\ FindIndex(files[local[c].filePath].content.spots,
                 local[c].requestData.spotName) = 0

\* C19: when handleEditRequestV2 approves a request whose spot is absent
\* from the fetched document, the request's status is set to rejected, the
\* document is not written, no notification and no announcement is created,
\* and the call fails with not-found.
C19_VanishedTargetAutoRejects ==
    [][\A c \in Procs :
          /\ FetchesWithoutSpot(c) =>
                /\ pc'[c] = "edit:autoreject"
                /\ UNCHANGED <<files, commits, editRequests, mailbox, announcements>>
          /\ (pc[c] = "edit:autoreject" /\ pc'[c] # pc[c]) =>
                /\ pc'[c] = "done"
                /\ editRequests'[call[c].data.requestId].status = "rejected"
                /\ outcome'[c] = Failure("not-found")
                /\ \A f \in FilePaths : io'[c].puts[f] = 0
                /\ UNCHANGED <<files, commits, mailbox, announcements>>]_vars

\* the delete request for spot A was approved and committed; the approval
\* of the edit request for A then found no spot A and rejected the request
C19_Witness ==
    \E c \in Procs :
        /\ pc[c] = "done"
        /\ call[c].handler = "handleEditRequestV2"
        /\ Has(call[c].data, "requestId")
        /\ call[c].data.requestId = "req1"
        /\ call[c].data.action = "approve"
        /\ outcome[c] = Failure("not-found")
        /\ io[c].gets[local[c].filePath] = 1
        /\ io[c].fate[local[c].filePath] = "none"
        /\ editRequests["req1"].status = "rejected"
        /\ editRequests["req2"].status = "approved"
        /\ mailbox["u1"] = <<"request-approved">>
        /\ Len(announcements) = 1
        /\ Len(commits) = 1

\* C20: resolveImageReportV2 deletes the image report exactly when the
\* resolution succeeds: only after its write of the document with the new
\* image was accepted; when the prefecture is unsupported, the spot is
\* missing, or the fetch or the write fails, the call leaves the report and
\* the document as they are.
C20_ReportDeletedOnlyOnSuccess ==
    [][\A c \in Procs :
          (call'[c].handler = "resolveImageReportV2" /\ pc'[c] # pc[c]) =>
              /\ imageReports' # imageReports =>
                    /\ pc[c] = "resolve:delete"
                    /\ io[c].fate[local[c].filePath] = "written"
                    /\ CommittedBy(c, local[c].filePath)
              /\ outcome'[c].kind = "success" =>
                    /\ pc[c] = "resolve:delete"
                    /\ imageReports' = imageReports \ {call[c].data.reportId}
                    /\ files' = files
              /\ outcome'[c].kind = "error" =>
                    /\ UNCHANGED <<imageReports, files, commits>>
                    /\ CommitsBy(c) = {}
              /\ pc[c] = "resolve:write" =>
                    /\ imageReports' = imageReports
                    /\ files' # files => pc'[c] = "resolve:delete"]_vars

\* one resolution succeeded and its report is gone; the other one's write
\* failed and its report is still there
C20_Witness ==
    \E c, d \in Procs :
        /\ call[c].handler = "resolveImageReportV2"
        /\ call[d].handler = "resolveImageReportV2"
        /\ pc[c] = "done" /\ outcome[c].kind = "success"
        /\ call[c].data.reportId = "rep1"
        /\ imageReports = {"rep2"}
        /\ CommitsBy(c) # {}
        /\ pc[d] = "done" /\ outcome[d].kind = "error"
        /\ call[d].data.reportId = "rep2"
        /\ io[d].put.status = "error"
        /\ CommitsBy(d) = {}

\* invocation c, approving a submission with isNewArea, approveNewArea and
\* newTransitData, has its write accepted in this step
WritesNewArea(c) ==
    /\ call[c].handler = "approveSubmissionV2"
    /\ pc[c] = "approve:write"
    /\ pc'[c] = "approve:commit"
    /\ call[c].data.submissionData.isNewArea
    /\ call[c].data.approveNewArea
    /\ "newTransitData" \in DOMAIN call[c].data.submissionData

\* the travel-time table of a document ({} when it has none) and the names
\* of its sub-area list
TransitOf(json) == IF "transitData" \in DOMAIN json THEN json.transitData ELSE <<>>

AreaNames(json) == {json.areaPositions[i].name : i \in 1..Len(json.areaPositions)}

\* C21: when approveSubmissionV2 approves a submission with isNewArea,
\* approveNewArea and newTransitData T, the written sub-area list is the
\* previous one plus the new area, the travel-time table holds T[a] from the
\* new area to a and from a to the new area for every existing area a of T,
\* and every other travel-time entry is as it was.
C21_SymmetricTransitInsertion ==
    [][\A c \in Procs :
          WritesNewArea(c) =>
              LET old == files[local[c].filePath].content
                  new == files'[local[c].filePath].content
                  n == call[c].data.submissionData.area
                  T == call[c].data.submissionData.newTransitData
                  before == TransitOf(old)
                  after == TransitOf(new)
              IN  /\ AreaNames(new) = AreaNames(old) \cup {n}
                  /\ Len(new.areaPositions) = Len(old.areaPositions) + 1
                  /\ \A a \in DOMAIN T \cap AreaNames(old) :
                        /\ n \in DOMAIN after /\ a \in DOMAIN after
                        /\ a \in DOMAIN after[n] /\ n \in DOMAIN after[a]
                        /\ after[n][a] = T[a]
                        /\ after[a][n] = T[a]
                  /\ \A a \in DOMAIN before : \A b \in DOMAIN before[a] :
                        ~ ((a = n /\ b \in DOMAIN T) \/ (b = n /\ a \in DOMAIN T)) =>
                            /\ a \in DOMAIN after
                            /\ b \in DOMAIN after[a]
                            /\ after[a][b] = before[a][b]]_vars

\* C22: every spot's sub-area appears in its document's sub-area list, in
\* the first documents and after any calls of the five writers that
\* succeeded (approvals with isNewArea and without approveNewArea, and admin
\* updates that change area, included).
C22_SpotAreaIsListed ==
    \A f \in FilePaths :
        \A i \in 1..Len(files[f].content.spots) :
            files[f].content.spots[i].area \in AreaNames(files[f].content)

\* a step of invocation c while it runs handler h
StepOf(c, h) == call'[c].handler = h /\ pc'[c] # pc[c]

\* the write of c's document was accepted
WriteAccepted(c) ==
    /\ io[c].put.status = "ok"
    /\ io[c].put.filePath = local[c].filePath
    /\ CommittedBy(c, local[c].filePath)

\* C27: handleEditRequestV2 marks a request approved only after its write
\* of the region document was accepted: the step that sets the status to
\* approved, notifies the submitter of the approval or announces the change
\* follows an accepted write of the same invocation; when the fetch or the
\* write fails the invocation ends in an error and leaves the request (still
\* pending if it was), the mailboxes and the announcements as they were.
C27_ApprovedOnlyAfterWrite ==
    [][\A c \in Procs :
          StepOf(c, "handleEditRequestV2") =>
              /\ (\/ announcements' # announcements
                  \/ \E r \in DOMAIN editRequests :
                        /\ editRequests'[r].status = "approved"
                        /\ editRequests[r].status # "approved"
                  \/ \E u \in Users :
                        /\ mailbox'[u] # mailbox[u]
                        /\ mailbox'[u][Len(mailbox'[u])] = "request-approved")
                    => /\ pc[c] = "edit:commit"
                       /\ WriteAccepted(c)
              /\ (pc[c] \in {"edit:fetch", "edit:write"} /\ pc'[c] = "done")
                    => /\ outcome'[c].kind = "error"
                       /\ UNCHANGED <<editRequests, mailbox, announcements>>
                       /\ \A r \in DOMAIN editRequests :
                             editRequests[r].status = "pending"
                                => editRequests'[r].status = "pending"]_vars

\* an approval whose write was refused: the request is still pending and
\* nothing was notified or announced
C27_Witness ==
    \E c \in Procs :
        /\ call[c].handler = "handleEditRequestV2"
        /\ pc[c] = "done" /\ outcome[c].kind = "error"
        /\ io[c].put.status = "conflict"
        /\ Has(call[c].data, "requestId")
        /\ editRequests[call[c].data.requestId].status = "pending"
        /\ announcements = <<>>
        /\ \A u \in Users : mailbox[u] = <<>>

\* C28: the reject action of handleEditRequestV2 writes no region document
\* and creates no announcement; in one step (one batch) it sets the status
\* of the request to rejected and, when the request records its submitter,
\* adds one notification to that submitter's mailbox, and nothing else.
C28_RejectTouchesOnlyRequestAndMailbox ==
    [][\A c \in Procs :
          (/\ StepOf(c, "handleEditRequestV2")
           /\ Has(call'[c].data, "action")
           /\ call'[c].data.action = "reject")
            => /\ UNCHANGED <<files, commits, announcements, imageReports, submissions>>
               /\ pc[c] = "idle" => UNCHANGED <<editRequests, mailbox>>
               /\ pc[c] # "idle" =>
                    LET r == call[c].data.requestId
                        requestData == editRequests[r]
                    IN  /\ outcome'[c].kind = "success"
                        /\ editRequests' = [editRequests EXCEPT ![r].status = "rejected"]
                        /\ \A u \in Users :
                              mailbox'[u] =
                                 IF Has(requestData, "submittedBy")
                                    /\ requestData.submittedBy = u
                                 THEN Append(mailbox[u], "request-rejected")
                                 ELSE mailbox[u]]_vars

\* a rejected request, its submitter notified once, nothing announced and
\* every document at its first revision
C28_Witness ==
    \E c \in Procs :
        /\ call[c].handler = "handleEditRequestV2"
        /\ pc[c] = "done" /\ outcome[c].kind = "success"
        /\ call[c].data.action = "reject"
        /\ editRequests[call[c].data.requestId].status = "rejected"
        /\ mailbox["u1"] = <<"request-rejected">>
        /\ announcements = <<>>
        /\ commits = <<>>

\* C30: approveSubmissionV2 deletes the submission and creates the
\* announcement in one step (one batch), and only after its write of the
\* region document was accepted; when the fetch, the image search or the
\* write fails the invocation ends in an error with the submissions, the
\* announcements and the documents as they were.
C30_SubmissionClosedOnlyAfterWrite ==
    [][\A c \in Procs :
          StepOf(c, "approveSubmissionV2") =>
              /\ (submissions' # submissions \/ announcements' # announcements)
                    => /\ pc[c] = "approve:commit"
                       /\ WriteAccepted(c)
                       /\ submissions' = submissions \ {call[c].data.submissionId}
                       /\ Len(announcements') = Len(announcements) + 1
                       /\ outcome'[c].kind = "success"
              /\ (/\ pc[c] \in {"approve:fetch", "approve:search", "approve:write"}
                  /\ pc'[c] = "done")
                    => /\ outcome'[c].kind = "error"
                       /\ UNCHANGED <<submissions, announcements, files, commits>>]_vars

\* one approval went through (submission gone, one announcement, one
\* commit) and another one's write was refused, its submission still there
C30_Witness ==
    \E c, d \in Procs :
        /\ call[c].handler = "approveSubmissionV2"
        /\ call[d].handler = "approveSubmissionV2"
        /\ pc[c] = "done" /\ outcome[c].kind = "success"
        /\ pc[d] = "done" /\ outcome[d].kind = "error"
        /\ io[d].put.status = "conflict"
        /\ Has(call[d].data, "submissionId")
        /\ call[d].data.submissionId \in submissions
        /\ call[c].data.submissionId \notin submissions
        /\ Len(announcements) = 1
        /\ Len(commits) = 1

(***************************************************************************)
(* analyzeSpotSuggestionV2 (lines 374-434).  The spot name and the gmaps   *)
(* field are sequences of one-character strings; a tag is a string.        *)
(***************************************************************************)
\* encodeURIComponent on one character: letters stay, a blank and an
\* ampersand are percent-encoded
EncodeChar(ch) ==
    CASE ch = " " -> <<"%", "2", "0">>
      [] ch = "&" -> <<"%", "2", "6">>
      [] OTHER    -> <<ch>>

RECURSIVE EncodeURIComponent(_)
EncodeURIComponent(str) ==
    IF str = <<>> THEN <<>>
    ELSE EncodeChar(Head(str)) \o EncodeURIComponent(Tail(str))

\* line 411: the gmaps value the prompt shows to the generative model
GmapsUrl(spotName) ==
    <<"https://www.google.com/maps/search/?api=1&query=">>
        \o EncodeURIComponent(spotName)

\* the object a well-formed answer of the generative model parses to (the
\* other fields of the output format are not constrained either)
AnalysisOf(name, tags, gmaps) ==
    [name |-> name, tags |-> tags, gmaps |-> gmaps, recommendation |-> "yes"]

\* lines 429-430: the fences are removed, the text trimmed and parsed; a
\* text that is not JSON (resp.json false) makes JSON.parse throw
ParseAnswer(resp) ==
    IF ~resp.json
    THEN [threw |-> TRUE, value |-> Null]
    ELSE [threw |-> FALSE, value |-> resp.body]

\* lines 375-433; resp is what the text-generation endpoint answers to the
\* prompt of lines 381-417.  Everything thrown inside the try leaves as
\* "internal" (line 432).
AnalyzeSpotSuggestion(data, resp) ==
    IF data.spotName = <<>> \/ data.spotUrl = ""
    THEN [threw |-> TRUE, code |-> "invalid-argument", value |-> Null]
    ELSE IF resp.kind \in {"throw", "notok", "nocands", "notext"}
    THEN [threw |-> TRUE, code |-> "internal", value |-> Null]
    ELSE LET parsed == ParseAnswer(resp)
         IN  IF parsed.threw
             THEN [threw |-> TRUE, code |-> "internal", value |-> Null]
             ELSE [threw |-> FALSE, code |-> "", value |-> parsed.value]

(***************************************************************************)
(* SpecImg: the helpers applied to drawn inputs.                           *)
(***************************************************************************)
Urls == {"u1", "u2", "u3", "u4"}

Images == { <<>>, <<" ">>, <<" ", "\n">>, <<"u">>, <<" ", "u">> }

\* a spot with an image field, and one without
Spots == [name : {"S"}, image : Images] \cup [name : {"S"}]

AnswerYes == [kind |-> "text", text |-> Yes]
AnswerNo  == [kind |-> "text", text |-> <<"n", "o">>]

\* the classifier's answers drawn for the items of a search: one accepted,
\* one rejected, one failed request
RelevanceAnswers == {AnswerYes, [kind |-> "notok", text |-> <<>>]}

\* the i-th item of a search response listing the links ls
ItemsOf(ls) ==
    [i \in 1..Len(ls) |-> [link |-> ls[i], contextLink |-> i, displayLink |-> i]]

LinkLists == UNION {[1..n -> Urls] : n \in 0..MaxItems}

SearchResults ==
    [kind : {"nokey", "throw", "notok", "noitems"}, items : {<<>>}]
        \cup {[kind |-> "ok", items |-> ItemsOf(ls)] : ls \in LinkLists}

FetchInputs ==
    UNION { [search : {sr}, answers : [1..Len(sr.items) -> RelevanceAnswers],
             reportedImageUrl : {Null, "u1"}] : sr \in SearchResults }

\* the requests to analyzeSpotSuggestionV2: a name with a blank, one with
\* an ampersand, an empty one; the answers of the generative model: a
\* failure, a text that is not JSON, or an object with any of these tags
\* and gmaps values, with or without code fences
SpotNames == { <<>>, <<"A">>, <<"A", " ", "B">>, <<"A", "&", "B">> }

StandardTags == <<"t1", "t2">>

AnalyzeRequests ==
    [spotName : SpotNames, spotUrl : {"", "url"}, standardTags : {StandardTags}]

AnswerTags == { <<>>, <<"t1">>, <<"t2", "t1">>, <<"t1", "t3">> }

AnswerGmaps ==
    {GmapsUrl(n) : n \in SpotNames \ {<<>>}}
        \cup {<<"https://www.google.com/maps/search/?api=1&query=">> \o <<"A", " ", "B">>}

AnalyzeResponses ==
    [kind : {"throw", "notok", "nocands", "notext"}, fenced : {FALSE}, json : {FALSE},
     body : {AnalysisOf(<<>>, <<>>, <<>>)}]
        \cup [kind : {"text"}, fenced : BOOLEAN, json : {FALSE},
              body : {AnalysisOf(<<>>, <<>>, <<>>)}]
        \cup [kind : {"text"}, fenced : BOOLEAN, json : {TRUE},
              body : {AnalysisOf(n, t, g) :
                          n \in {<<"A">>}, t \in AnswerTags, g \in AnswerGmaps}]

AnalyzeInputs == [data : AnalyzeRequests, resp : AnalyzeResponses]

InitImg ==
    /\ op \in {"shouldUpdateImage", "isImageAppropriate", "fetchImageForSpot",
              "analyzeSpotSuggestion"}
    /\ inp \in CASE op = "shouldUpdateImage" -> [spot : Spots, resp : AiResponses]
                 [] op = "isImageAppropriate" -> [resp : AiResponses]
                 [] op = "analyzeSpotSuggestion" -> AnalyzeInputs
                 [] OTHER -> FetchInputs
    /\ ret = NotCalled
    /\ aiCalls = 0
    /\ StoreIdle

CallShouldUpdateImage ==
    /\ op = "shouldUpdateImage"
    /\ ret = NotCalled
    /\ LET r == ShouldUpdateImage(inp.spot, inp.resp)
       IN  /\ ret' = [done |-> TRUE, threw |-> r.threw, value |-> r.value]
           /\ aiCalls' = aiCalls + r.calls
    /\ UNCHANGED <<op, inp>>
    /\ UNCHANGED <<storeVars, procVars>>

CallIsImageAppropriate ==
    /\ op = "isImageAppropriate"
    /\ ret = NotCalled
    /\ LET r == IsImageAppropriate(inp.resp)
       IN  ret' = [done |-> TRUE, threw |-> r.threw, value |-> r.value]
    /\ aiCalls' = aiCalls + 1
    /\ UNCHANGED <<op, inp>>
    /\ UNCHANGED <<storeVars, procVars>>

CallFetchImageForSpot ==
    /\ op = "fetchImageForSpot"
    /\ ret = NotCalled
    /\ LET r == FetchImageForSpotLogic(inp.search, inp.answers, inp.reportedImageUrl)
       IN  ret' = [done |-> TRUE, threw |-> r.threw, code |-> r.code,
                   candidates |-> r.candidates]
    /\ UNCHANGED <<op, inp, aiCalls>>
    /\ UNCHANGED <<storeVars, procVars>>

CallAnalyzeSpotSuggestion ==
    /\ op = "analyzeSpotSuggestion"
    /\ ret = NotCalled
    /\ LET r == AnalyzeSpotSuggestion(inp.data, inp.resp)
       IN  ret' = [done |-> TRUE, threw |-> r.threw, code |-> r.code, value |-> r.value]
    /\ aiCalls' = IF inp.data.spotName = <<>> \/ inp.data.spotUrl = ""
                  THEN aiCalls ELSE aiCalls + 1
    /\ UNCHANGED <<op, inp>>
    /\ UNCHANGED <<storeVars, procVars>>

NextImg ==
    \/ CallShouldUpdateImage
    \/ CallIsImageAppropriate
    \/ CallFetchImageForSpot
    \/ CallAnalyzeSpotSuggestion

SpecImg == InitImg /\ [][NextImg]_vars


(***************************************************************************)
(* Claims about the image helpers (checked under SpecImg).                 *)
(***************************************************************************)
ShouldUpdateReturned == op = "shouldUpdateImage" /\ ret.done
AppropriateReturned  == op = "isImageAppropriate" /\ ret.done
FetchReturned        == op = "fetchImageForSpot" /\ ret.done

\* the image field is missing, empty or made of whitespace only
BlankImage(spot) ==
    \/ "image" \notin DOMAIN spot
    \/ \A i \in 1..Len(spot.image) : spot.image[i] \in Whitespace

\* C4: for a spot whose image is missing, empty or whitespace-only,
\* shouldUpdateImage returns true and sends nothing to the classifier.
C4_BlankImageNeedsUpdate ==
    (ShouldUpdateReturned /\ BlankImage(inp.spot))
        => (~ret.threw /\ ret.value = TRUE /\ aiCalls = 0)

C4_Witness ==
    /\ ShouldUpdateReturned
    /\ "image" \in DOMAIN inp.spot
    /\ inp.spot.image = <<" ", "\n">>
    /\ ret.value = TRUE

\* C5: for a spot with an image (one that passes the emptiness test of
\* line 494), shouldUpdateImage returns true exactly when the classifier
\* answered with a text that is "yes" once trimmed and lower-cased; every
\* other answer or failure gives false, and nothing is thrown.
C5_TrueOnlyOnExactYes ==
    (ShouldUpdateReturned /\ ~BlankImage(inp.spot))
        => /\ ~ret.threw
           /\ aiCalls = 1
           /\ ret.value = (/\ inp.resp.kind = "text"
                           /\ ToLowerCase(Trim(inp.resp.text)) = Yes)

C5_Witness ==
    /\ ShouldUpdateReturned
    /\ ~BlankImage(inp.spot)
    /\ inp.resp = [kind |-> "text", text |-> <<" ", "Y", "E", "S">>]
    /\ ret.value = TRUE

\* C6: isImageAppropriate never throws, returns false for every transport
\* failure, non-success status and malformed answer, and returns true only
\* for a successful answer whose text says yes.
C6_AppropriateFailsClosed ==
    AppropriateReturned
        => /\ ~ret.threw
           /\ inp.resp.kind # "text" => ret.value = FALSE
           /\ ret.value = TRUE =>
                 /\ inp.resp.kind = "text"
                 /\ Includes(ToLowerCase(Trim(inp.resp.text)), Yes)

C6_Witness ==
    /\ AppropriateReturned
    /\ inp.resp.kind = "badjson"
    /\ ret.value = FALSE
    /\ ~ret.threw

\* C7: the candidate list returned by _fetchImageForSpotLogic holds no two
\* candidates with the same url.
C7_NoDuplicateCandidates ==
    (FetchReturned /\ ~ret.threw)
        => \A j, k \in 1..Len(ret.candidates) :
               ret.candidates[j].url = ret.candidates[k].url => j = k

\* the items of the search response (contextLink is the item's position)
InSearchOrder(cs) ==
    \A j, k \in 1..Len(cs) : j < k => cs[j].sourceLink < cs[k].sourceLink

AcceptedNow == Accepted(inp.search.items, inp.answers, inp.reportedImageUrl)

\* what the backfill adds: nothing reported, nothing already present, and it
\* stops at 3 entries or when every item is reported or present
BackfillSound(cs, nAccepted) ==
    /\ Len(cs) >= nAccepted
    /\ SubSeq(cs, 1, nAccepted) = AcceptedNow
    /\ \A k \in (nAccepted + 1)..Len(cs) :
          /\ cs[k].url # inp.reportedImageUrl
          /\ \A j \in 1..(k - 1) : cs[j].url # cs[k].url
          /\ inp.search.items[cs[k].sourceLink].link = cs[k].url
    /\ \/ Len(cs) = MaxCandidates
       \/ \A i \in 1..Len(inp.search.items) :
             \/ inp.search.items[i].link = inp.reportedImageUrl
             \/ \E j \in 1..Len(cs) : cs[j].url = inp.search.items[i].link

FewerThanThreeAccepted ==
    FetchReturned /\ inp.search.kind = "ok" /\ Len(AcceptedNow) < MaxCandidates

\* C8 as stated: with fewer than 3 accepted items the list is backfilled
\* (never the reported url, never a url already present, up to 3 or until
\* the items run out) and the resulting list is in search-response order.
C8_BackfillWholeListInOrder ==
    FewerThanThreeAccepted
        => /\ BackfillSound(ret.candidates, Len(AcceptedNow))
           /\ InSearchOrder(ret.candidates)

\* C8 amended: ... the accepted items come first, in search-response order,
\* followed by the backfilled items, in search-response order.
C8_BackfillAcceptedFirst ==
    FewerThanThreeAccepted
        => /\ BackfillSound(ret.candidates, Len(AcceptedNow))
           /\ InSearchOrder(AcceptedNow)
           /\ InSearchOrder(SubSeq(ret.candidates, Len(AcceptedNow) + 1,
                                   Len(ret.candidates)))

\* one accepted item, behind it a backfilled item that preceded it in the
\* search response, a reported url and a repeated url among the items
C8_Witness ==
    /\ FewerThanThreeAccepted
    /\ Len(AcceptedNow) = 1
    /\ Len(ret.candidates) = 2
    /\ ret.candidates[2].sourceLink < ret.candidates[1].sourceLink
    /\ inp.reportedImageUrl # Null
    /\ \E i \in 1..Len(inp.search.items) :
          inp.search.items[i].link = inp.reportedImageUrl
    /\ \E i, j \in 1..Len(inp.search.items) :
          i # j /\ inp.search.items[i].link = inp.search.items[j].link

\* C26: the candidate list _fetchImageForSpotLogic returns never has more
\* than 3 entries and never contains the reported image url, whatever the
\* search response and the answers of the relevance filter; a search with
\* zero results gives an empty list, not an error.
C26_AtMostThreeNeverReported ==
    FetchReturned =>
        /\ ~ret.threw =>
              /\ Len(ret.candidates) <= MaxCandidates
              /\ \A k \in 1..Len(ret.candidates) :
                    ret.candidates[k].url # inp.reportedImageUrl
        /\ (inp.search.kind = "noitems"
                \/ (inp.search.kind = "ok" /\ inp.search.items = <<>>))
              => (~ret.threw /\ ret.candidates = <<>>)

\* four items, the reported one accepted by the filter among them, and a
\* full list returned
C26_Witness ==
    /\ FetchReturned
    /\ Len(inp.search.items) = 4
    /\ inp.reportedImageUrl # Null
    /\ \E i \in 1..Len(inp.search.items) :
          /\ inp.search.items[i].link = inp.reportedImageUrl
          /\ inp.answers[i] = AnswerYes
    /\ \A i \in 1..Len(inp.search.items) : inp.answers[i] = AnswerYes
    /\ Len(ret.candidates) = MaxCandidates

AnalyzeReturned == op = "analyzeSpotSuggestion" /\ ret.done /\ ~ret.threw

\* the elements of a list
Range(list) == {list[i] : i \in 1..Len(list)}

\* C25: for every successful analyzeSpotSuggestionV2 call with spot name n
\* and tag list S, the tags of the returned object are a subset of S and its
\* gmaps field is the Maps search url built from the url-encoded n,
\* whatever text the generative model returned.
C25_TagsAndGmapsAreEnforced ==
    AnalyzeReturned =>
        /\ Range(ret.value.tags) \subseteq Range(inp.data.standardTags)
        /\ ret.value.gmaps = GmapsUrl(inp.data.spotName)

(***************************************************************************)
(* _getPrefectureListLogic (lines 341-368): the regions whose document     *)
(* could be read, sorted by id; throws "internal" when the directory       *)
(* cannot be listed.                                                       *)
(***************************************************************************)
\* the place of an id in the order of a.id.localeCompare(b.id)
IdRank(id) == CASE id = "okayama" -> 1 [] id = "osaka" -> 2 [] OTHER -> 3

RECURSIVE SortById(_)
SortById(ids) ==
    IF ids = {} THEN <<>>
    ELSE LET first == CHOOSE x \in ids : \A y \in ids : IdRank(x) <= IdRank(y)
         IN  <<first>> \o SortById(ids \ {first})

GetPrefectureListLogic(listed, readable) ==
    IF ~listed THEN [threw |-> TRUE, list |-> <<>>]
    ELSE LET ids == SortById(readable)
         IN  [threw |-> FALSE,
              list |-> [k \in 1..Len(ids) |->
                          [id |-> ids[k], name |-> files[FilePath(ids[k])].content.name]]]

(***************************************************************************)
(* The batch readers: getBatchUpdateCountsV2 (lines 664-680) and           *)
(* batchFindImageUpdatesV2 (lines 682-718).                                *)
(***************************************************************************)
\* the characters of a stored image url: the documents here hold either no
\* url or a url without blanks around it
CharsOf(image) == IF image = "" THEN <<>> ELSE <<"u", "r", "l">>

\* currentJson.spots.map(spot => shouldUpdateImage(spot)), awaited: one
\* check per spot, answers[i] the classifier's response for spots[i]
SpotChecks(id, spots, answers) ==
    [i \in 1..Len(spots) |->
        [id |-> id, spotName |-> spots[i].name, image |-> spots[i].image,
         value |-> ShouldUpdateImage([image |-> CharsOf(spots[i].image)],
                                     answers[i]).value]]

\* line 674: checkResults.filter(shouldUpdate => shouldUpdate).length
CountOf(checks) == Cardinality({i \in 1..Len(checks) : checks[i].value})

\* lines 699-700: the spots whose check said yes, in document order
RECURSIVE SpotsToUpdate(_, _, _)
SpotsToUpdate(spots, checks, i) ==
    IF i > Len(spots) THEN <<>>
    ELSE (IF checks[i].value THEN <<spots[i]>> ELSE <<>>)
            \o SpotsToUpdate(spots, checks, i + 1)

\* Promise.all with its results pushed as the promises settle
RECURSIVE SettleAsCompleted(_, _, _)
SettleAsCompleted(values, order, n) ==
    IF n > Len(order) THEN <<>>
    ELSE <<values[order[n]]>> \o SettleAsCompleted(values, order, n + 1)

PromiseAllAsCompleted(values, order) == SettleAsCompleted(values, order, 1)

\* the promises settle one by one, the n-th to settle being order[n]; each
\* puts its value at its own index of the results
RECURSIVE Settle(_, _, _, _)
Settle(results, values, order, n) ==
    IF n > Len(order) THEN results
    ELSE Settle([results EXCEPT ![order[n]] = values[order[n]]], values, order, n + 1)

\* lines 673 and 700: await Promise.all(updateChecks), the checks settling
\* in any order
PromiseAll(values, order) ==
    Settle([i \in 1..Len(values) |-> Null], values, order, 1)

\* lines 665-668
CountsStart(c, caller, listed, readable) ==
    /\ pc[c] = "idle"
    /\ call' = [call EXCEPT ![c] =
                  [handler |-> "getBatchUpdateCountsV2", caller |-> caller, data |-> <<>>]]
    /\ LET all == GetPrefectureListLogic(listed, readable)
       IN  IF ~IsAdmin(caller)
           THEN Finish(c, Failure("permission-denied")) /\ UNCHANGED local
           ELSE IF all.threw
           THEN Finish(c, Failure("internal")) /\ UNCHANGED local
           ELSE IF all.list = <<>>
           THEN Finish(c, Success) /\ UNCHANGED local
           ELSE /\ Goto(c, "counts:region")
                /\ local' = [local EXCEPT ![c].prefectures = all.list,
                                          ![c].todo = 1..Len(all.list)]
    /\ io' = [io EXCEPT ![c] = IF IsAdmin(caller)
                             THEN IoList(c, listed) ELSE @]
    /\ UNCHANGED <<imgVars, storeVars>>

\* the callback of line 669 without its try/catch: a region that cannot be
\* fetched fails the call
CountsRegionNoCatch(c, k, ok, answerSet) ==
    /\ pc[c] = "counts:region"
    /\ k \in local[c].todo
    /\ LET pref == local[c].prefectures[k]
           f == FilePath(pref.id)
           spots == files[f].content.spots
       IN  \E answers \in [1..Len(spots) -> answerSet],
              order \in Permutations(1..Len(spots)) :
              LET checks == SpotChecks(pref.id, spots, answers)
                  checkResults == PromiseAll(checks, order)
                  count == CountOf(checkResults)
                  counts == IF ok /\ count > 0
                            THEN SetKey(local[c].result, pref.id, count)
                            ELSE local[c].result
              IN  /\ io' = [io EXCEPT ![c] =
                              [IoGet(c, f, ok) EXCEPT
                                  !.checks = IF ok THEN @ \o checks ELSE @]]
                  /\ local' = [local EXCEPT ![c].todo = @ \ {k}, ![c].result = counts]
                  /\ IF ~ok THEN Finish(c, Failure("internal"))
                     ELSE IF local[c].todo = {k}
                     THEN Finish(c, [Success EXCEPT !.value = counts])
                     ELSE UNCHANGED <<pc, outcome>>
    /\ UNCHANGED <<imgVars, storeVars, call>>

\* lines 669-678: the callbacks of Promise.all run one per region, in any
\* order; the call returns when the last one has ended
CountsRegion(c, k, ok, answerSet) ==
    /\ pc[c] = "counts:region"
    /\ k \in local[c].todo
    /\ LET pref == local[c].prefectures[k]
           f == FilePath(pref.id)
           spots == files[f].content.spots
       IN  \E answers \in [1..Len(spots) -> answerSet],
              order \in Permutations(1..Len(spots)) :
              LET checks == SpotChecks(pref.id, spots, answers)
                  checkResults == PromiseAll(checks, order)
                  count == CountOf(checkResults)
                  counts == IF ok /\ count > 0
                            THEN SetKey(local[c].result, pref.id, count)
                            ELSE local[c].result
              IN  /\ io' = [io EXCEPT ![c] =
                              [IoGet(c, f, ok) EXCEPT
                                  !.checks = IF ok THEN @ \o checks ELSE @]]
                  /\ local' = [local EXCEPT ![c].todo = @ \ {k}, ![c].result = counts]
                  /\ IF local[c].todo = {k}
                     THEN Finish(c, [Success EXCEPT !.value = counts])
                     ELSE UNCHANGED <<pc, outcome>>
    /\ UNCHANGED <<imgVars, storeVars, call>>

FindArgs ==
    { [prefectureId |-> "all"], [prefectureId |-> Null],
      [prefectureId |-> "tokyo"], [prefectureId |-> "kyoto"] }

\* the catch of line 717: whatever was thrown inside the try is thrown
\* again as "internal"
BatchFindError(code) == "internal"

\* lines 683-695
FindStart(c, caller, data, listed, readable) ==
    /\ pc[c] = "idle"
    /\ call' = [call EXCEPT ![c] =
                  [handler |-> "batchFindImageUpdatesV2", caller |-> caller, data |-> data]]
    /\ LET all == GetPrefectureListLogic(listed, readable)
           single == {k \in 1..Len(all.list) : all.list[k].id = data.prefectureId}
           prefecturesToProcess ==
               IF Has(data, "prefectureId") /\ data.prefectureId # "all"
               THEN [k \in 1..Cardinality(single) |-> all.list[CHOOSE j \in single : TRUE]]
               ELSE all.list
       IN  IF ~IsAdmin(caller)
           THEN Finish(c, Failure("permission-denied")) /\ UNCHANGED local
           ELSE IF all.threw
           THEN Finish(c, Failure(BatchFindError("internal"))) /\ UNCHANGED local
           ELSE IF Has(data, "prefectureId") /\ data.prefectureId # "all" /\ single = {}
           THEN Finish(c, Failure(BatchFindError("not-found"))) /\ UNCHANGED local
           ELSE IF prefecturesToProcess = <<>>
           THEN Finish(c, Success) /\ UNCHANGED local
           ELSE /\ Goto(c, "find:region")
                /\ local' = [local EXCEPT ![c].prefectures = prefecturesToProcess,
                                          ![c].next = 1]
    /\ io' = [io EXCEPT ![c] = IF IsAdmin(caller)
                             THEN IoList(c, listed) ELSE @]
    /\ UNCHANGED <<imgVars, storeVars>>

\* the end of one turn of the loop of line 696: the next region, or the
\* return of line 716
FindAdvance(c, proposedUpdates) ==
    IF local[c].next < Len(local[c].prefectures)
    THEN /\ Goto(c, "find:region")
         /\ local' = [local EXCEPT ![c].next = @ + 1, ![c].spotsToUpdate = <<>>,
                                   ![c].result = proposedUpdates]
    ELSE /\ Finish(c, [Success EXCEPT !.value = proposedUpdates])
         /\ local' = [local EXCEPT ![c].spotsToUpdate = <<>>,
                                   ![c].result = proposedUpdates]

\* lines 698-700, and the catch of line 714 when the fetch throws
FindRegion(c, ok, answerSet) ==
    /\ pc[c] = "find:region"
    /\ LET pref == local[c].prefectures[local[c].next]
           f == FilePath(pref.id)
           spots == files[f].content.spots
       IN  \E answers \in [1..Len(spots) -> answerSet],
              order \in Permutations(1..Len(spots)) :
              LET checks == SpotChecks(pref.id, spots, answers)
                  spotsToUpdate == SpotsToUpdate(spots, PromiseAll(checks, order), 1)
              IN  /\ io' = [io EXCEPT ![c] =
                              [IoGet(c, f, ok) EXCEPT
                                  !.checks = IF ok THEN @ \o checks ELSE @]]
                  /\ IF ok /\ spotsToUpdate # <<>>
                     THEN /\ Goto(c, "find:search")
                          /\ local' = [local EXCEPT ![c].spotsToUpdate = spotsToUpdate]
                     ELSE FindAdvance(c, local[c].result)
    /\ UNCHANGED <<imgVars, storeVars, call>>

\* lines 705-710 taking the last candidate in place of the first
ProposalOfLast(spot, candidates) ==
    [spotName |-> spot.name, prefecture |-> spot.prefecture, area |-> spot.area,
     oldImageUrl |-> spot.image,
     newImageUrl |-> candidates[Len(candidates)].url,
     newImageSource |-> candidates[Len(candidates)].displayLink,
     newImageSourceUrl |-> candidates[Len(candidates)].sourceLink]

\* lines 705-710
ProposalOf(spot, candidates) ==
    [spotName |-> spot.name, prefecture |-> spot.prefecture, area |-> spot.area,
     oldImageUrl |-> spot.image,
     newImageUrl |-> candidates[1].url,
     newImageSource |-> candidates[1].displayLink,
     newImageSourceUrl |-> candidates[1].sourceLink]

\* the record of one image search: the spot, what the search met, whether
\* it threw and the candidates it returned
SearchOf(spot, found, imageResult) ==
    [spotName |-> spot.name, prefecture |-> spot.prefecture, image |-> spot.image,
     search |-> found.search, answers |-> found.answers,
     threw |-> imageResult.threw, candidates |-> imageResult.candidates]

\* the body of the loop of line 701 without the try/catch of lines 702 and
\* 712: a search that throws ends the call
FindSearchNoCatch(c, found) ==
    /\ pc[c] = "find:search"
    /\ LET spot == Head(local[c].spotsToUpdate)
           rest == Tail(local[c].spotsToUpdate)
           imageResult == FetchImageForSpotLogic(found.search, found.answers, Null)
           proposedUpdates ==
               IF ~imageResult.threw /\ imageResult.candidates # <<>>
               THEN Append(local[c].result, ProposalOf(spot, imageResult.candidates))
               ELSE local[c].result
       IN  /\ io' = [io EXCEPT ![c].searches = Append(@, SearchOf(spot, found, imageResult))]
           /\ IF imageResult.threw
              THEN Finish(c, Failure("internal")) /\ UNCHANGED local
              ELSE IF rest = <<>>
              THEN FindAdvance(c, proposedUpdates)
              ELSE /\ local' = [local EXCEPT ![c].spotsToUpdate = rest,
                                             ![c].result = proposedUpdates]
                   /\ UNCHANGED <<pc, outcome>>
    /\ UNCHANGED <<imgVars, storeVars, call>>

\* lines 701-713 applying the proposal to the stored document as it is made
FindSearchWritesImage(c, found) ==
    /\ pc[c] = "find:search"
    /\ LET spot == Head(local[c].spotsToUpdate)
           rest == Tail(local[c].spotsToUpdate)
           imageResult == FetchImageForSpotLogic(found.search, found.answers, Null)
           proposes == ~imageResult.threw /\ imageResult.candidates # <<>>
           proposedUpdates ==
               IF proposes
               THEN Append(local[c].result, ProposalOf(spot, imageResult.candidates))
               ELSE local[c].result
           f == FilePath(local[c].prefectures[local[c].next].id)
           idx == FindIndex(files[f].content.spots, spot.name)
       IN  /\ io' = [io EXCEPT ![c].searches = Append(@, SearchOf(spot, found, imageResult))]
           /\ files' = IF proposes /\ idx # 0
                       THEN [files EXCEPT ![f].content.spots[idx].image =
                                              imageResult.candidates[1].url,
                                          ![f].sha = @ + 1]
                       ELSE files
           /\ IF rest = <<>>
              THEN FindAdvance(c, proposedUpdates)
              ELSE /\ local' = [local EXCEPT ![c].spotsToUpdate = rest,
                                             ![c].result = proposedUpdates]
                   /\ UNCHANGED <<pc, outcome>>
    /\ UNCHANGED <<imgVars, commits, dbVars, call>>

\* lines 701-713: the search for the next flagged spot and its proposal
FindSearch(c, found) ==
    /\ pc[c] = "find:search"
    /\ LET spot == Head(local[c].spotsToUpdate)
           rest == Tail(local[c].spotsToUpdate)
           imageResult == FetchImageForSpotLogic(found.search, found.answers, Null)
           proposedUpdates ==
               IF ~imageResult.threw /\ imageResult.candidates # <<>>
               THEN Append(local[c].result, ProposalOf(spot, imageResult.candidates))
               ELSE local[c].result
       IN  /\ io' = [io EXCEPT ![c].searches = Append(@, SearchOf(spot, found, imageResult))]
           /\ IF rest = <<>>
              THEN FindAdvance(c, proposedUpdates)
              ELSE /\ local' = [local EXCEPT ![c].spotsToUpdate = rest,
                                             ![c].result = proposedUpdates]
                   /\ UNCHANGED <<pc, outcome>>
    /\ UNCHANGED <<imgVars, storeVars, call>>

(***************************************************************************)
(* SpecBatch: one batch reader (c1) while an administrator's               *)
(* resolveImageReportV2 (c2) changes a document it reads.                  *)
(***************************************************************************)
\* the classifier's answers to shouldUpdateImage: yes, no, a failed request
BatchAnswers == {AnswerYes, AnswerNo, [kind |-> "notok", text |-> <<>>]}

FoundItems ==
    <<[link |-> "found1", contextLink |-> "page1", displayLink |-> "site1"],
      [link |-> "found2", contextLink |-> "page2", displayLink |-> "site2"]>>

\* what an image search may meet: a failure, no items, or two items of
\* which the relevance filter accepts any, one or none
FindSearches ==
    { [search |-> [kind |-> k, items |-> <<>>], answers |-> <<>>] :
            k \in {"throw", "notok", "noitems"} }
    \cup { [search |-> [kind |-> "ok", items |-> FoundItems], answers |-> as] :
            as \in [1..2 -> {AnswerYes, AnswerNo}] }

CountsSteps(c, answerSet) ==
    \E k \in 1..Cardinality(RegionIds), ok \in BOOLEAN : CountsRegion(c, k, ok, answerSet)

FindSteps(c, answerSet, searches) ==
    \/ \E ok \in BOOLEAN : FindRegion(c, ok, answerSet)
    \/ \E found \in searches : FindSearch(c, found)

NextBatch ==
    \/ /\ pc["c1"] = "idle"
       /\ \E caller \in Callers, m \in MapReads :
             \/ CountsStart("c1", caller, m[1], m[2])
             \/ \E data \in FindArgs : FindStart("c1", caller, data, m[1], m[2])
    \/ CountsSteps("c1", BatchAnswers)
    \/ FindSteps("c1", BatchAnswers, FindSearches)
    \/ /\ pc["c2"] = "idle"
       /\ \E data \in RivalArgs : ResolveStart("c2", "admin", data, FALSE, {})
    \/ ResolveSteps("c2")

SpecBatch == Init /\ [][NextBatch]_vars

(***************************************************************************)
(* Claims about the batch readers (checked under SpecBatch, where c1 is    *)
(* the reader).                                                            *)
(***************************************************************************)
CountsCalled ==
    /\ call["c1"].handler = "getBatchUpdateCountsV2"
    /\ local["c1"].prefectures # <<>>

CountsReturned ==
    /\ CountsCalled
    /\ pc["c1"] = "done"
    /\ outcome["c1"].kind = "success"

\* the spots of region id the invocation's checks flagged
FlaggedIn(c, id) ==
    {i \in 1..Len(io[c].checks) : io[c].checks[i].id = id /\ io[c].checks[i].value}

\* C12: once getBatchUpdateCountsV2 has the list of regions, a region whose
\* document cannot be fetched does not fail the call; when the call ends it
\* has succeeded, every listed region was fetched, a region whose fetch
\* failed is absent from the result and every other region has its count of
\* flagged spots (absent when the count is 0).
C12_CountsSkipFailedRegion ==
    CountsCalled =>
        /\ pc["c1"] = "done" => outcome["c1"].kind = "success"
        /\ CountsReturned =>
              \A k \in 1..Len(local["c1"].prefectures) :
                 LET id == local["c1"].prefectures[k].id
                     counts == outcome["c1"].value
                 IN  /\ io["c1"].gets[FilePath(id)] = 1
                     /\ IF io["c1"].fate[FilePath(id)] = "fetch-failed"
                           \/ FlaggedIn("c1", id) = {}
                        THEN id \notin DOMAIN counts
                        ELSE /\ id \in DOMAIN counts
                             /\ counts[id] = Cardinality(FlaggedIn("c1", id))

\* three regions listed, one cannot be fetched, the two spots of another
\* are both counted
C12_Witness ==
    /\ CountsReturned
    /\ Len(local["c1"].prefectures) = 3
    /\ \E f \in FilePaths : io["c1"].fate[f] = "fetch-failed"
    /\ \E id \in DOMAIN outcome["c1"].value : outcome["c1"].value[id] = 2
    /\ Cardinality(DOMAIN outcome["c1"].value) = 2

FindCalled ==
    /\ call["c1"].handler = "batchFindImageUpdatesV2"
    /\ local["c1"].prefectures # <<>>

FindReturned ==
    /\ FindCalled
    /\ pc["c1"] = "done"
    /\ outcome["c1"].kind = "success"

\* the checks that flagged a spot, and the searches that found a candidate,
\* in the order they were made
FlaggedChecks(c) == SelectSeq(io[c].checks, LAMBDA check : check.value)

Proposing(c) ==
    SelectSeq(io[c].searches, LAMBDA x : ~x.threw /\ x.candidates # <<>>)

\* C13: once batchFindImageUpdatesV2 has its regions, a failed image search
\* does not fail the call; when the call ends every flagged spot of every
\* fetched region was searched, in order, and the proposals are exactly the
\* searches that returned a candidate: none for a spot whose search failed,
\* one for every other spot with a candidate.
C13_SearchFailureSkipsSpotOnly ==
    FindCalled =>
        /\ pc["c1"] = "done" => outcome["c1"].kind = "success"
        /\ FindReturned =>
              LET flagged == FlaggedChecks("c1")
                  searches == io["c1"].searches
                  proposing == Proposing("c1")
                  proposedUpdates == outcome["c1"].value
              IN  /\ Len(searches) = Len(flagged)
                  /\ \A k \in 1..Len(flagged) : searches[k].spotName = flagged[k].spotName
                  /\ Len(proposedUpdates) = Len(proposing)
                  /\ \A k \in 1..Len(proposing) :
                        proposedUpdates[k].spotName = proposing[k].spotName
                  /\ \A k \in 1..Len(searches) :
                        searches[k].threw =>
                            \A j \in 1..Len(proposedUpdates) :
                                proposedUpdates[j].spotName # searches[k].spotName

\* a search fails in the first region and in the last; the spot after it in
\* the same region and a spot of a later region are proposed
C13_Witness ==
    /\ FindReturned
    /\ LET searches == io["c1"].searches
           Proposed(k) == \E j \in 1..Len(outcome["c1"].value) :
                              outcome["c1"].value[j].spotName = searches[k].spotName
       IN  /\ \E i, j \in 1..Len(searches) :
                /\ i < j /\ searches[i].threw
                /\ searches[i].prefecture = searches[j].prefecture
                /\ Proposed(j)
           /\ \E i, j \in 1..Len(searches) :
                /\ i < j /\ searches[i].threw
                /\ searches[i].prefecture # searches[j].prefecture
                /\ Proposed(j)

\* the item of a search (made with no reported url) that is the primary
\* replacement: the first one the relevance filter accepted, or the first
\* one of the response when it accepted none
PrimaryItem(x) ==
    LET accepted == {i \in 1..Len(x.search.items) : IsImageAppropriate(x.answers[i]).value}
    IN  IF accepted # {}
        THEN x.search.items[CHOOSE i \in accepted : \A j \in accepted : i <= j]
        ELSE x.search.items[1]

\* C14: every proposal of batchFindImageUpdatesV2 carries, as oldImageUrl,
\* the image the flagged spot had in the fetched document and, as
\* newImageUrl, the first accepted search item if one was accepted and the
\* first search item otherwise; a flagged spot gets at most one proposal,
\* and none when its search returned no candidate.
C14_ProposalIsFirstCandidate ==
    FindReturned =>
        LET proposing == Proposing("c1")
            proposedUpdates == outcome["c1"].value
        IN  /\ Len(proposedUpdates) = Len(proposing)
            /\ \A k \in 1..Len(proposedUpdates) :
                  /\ k <= Len(proposing)
                  /\ proposedUpdates[k].spotName = proposing[k].spotName
                  /\ proposedUpdates[k].oldImageUrl = proposing[k].image
                  /\ proposedUpdates[k].newImageUrl = PrimaryItem(proposing[k]).link
                  /\ proposedUpdates[k].newImageSource = PrimaryItem(proposing[k]).displayLink
                  /\ proposedUpdates[k].newImageSourceUrl = PrimaryItem(proposing[k]).contextLink
                  /\ \A j \in 1..Len(proposedUpdates) :
                        j # k => proposedUpdates[j].spotName # proposedUpdates[k].spotName
            /\ \A k \in 1..Len(io["c1"].searches) :
                  LET x == io["c1"].searches[k]
                  IN  (x.threw \/ x.search.items = <<>>) =>
                         \A j \in 1..Len(proposedUpdates) :
                             proposedUpdates[j].spotName # x.spotName

\* one proposal from a search whose second item was the first accepted, one
\* from a search with nothing accepted (the first raw item), and a flagged
\* spot whose search had no items
C14_Witness ==
    /\ FindReturned
    /\ \E k \in 1..Len(Proposing("c1")) :
          /\ ~ IsImageAppropriate(Proposing("c1")[k].answers[1]).value
          /\ IsImageAppropriate(Proposing("c1")[k].answers[2]).value
          /\ outcome["c1"].value[k].newImageUrl = "found2"
    /\ \E k \in 1..Len(Proposing("c1")) :
          /\ \A i \in 1..2 : ~ IsImageAppropriate(Proposing("c1")[k].answers[i]).value
          /\ outcome["c1"].value[k].newImageUrl = "found1"
    /\ \E k \in 1..Len(io["c1"].searches) :
          io["c1"].searches[k].search.kind = "noitems"

(***************************************************************************)
(* The order in which the sub-requests of the batch readers complete       *)
(* (checked under SpecBatch).                                              *)
(***************************************************************************)
\* the counts the answers of the services determine, whatever the order in
\* which they arrived
CountsOfAnswers(c) ==
    LET ids == {io[c].checks[i].id : i \in 1..Len(io[c].checks)}
    IN  [id \in {x \in ids : FlaggedIn(c, x) # {}} |-> Cardinality(FlaggedIn(c, id))]

\* the proposals the answers of the services determine
ProposalsOfAnswers(c) ==
    {<<Proposing(c)[k].spotName, Proposing(c)[k].image, PrimaryItem(Proposing(c)[k]).link>> :
        k \in 1..Len(Proposing(c))}

\* C24: the results of getBatchUpdateCountsV2 and batchFindImageUpdatesV2
\* are determined by the answers of the external services alone, not by
\* the order in which the per-region fetches and the per-spot checks
\* complete: the counts returned are the numbers of spots the checks
\* flagged per region, the spots searched are the spots the checks flagged
\* and the set of proposals is the set the searches determine.
C24_ResultsIgnoreCompletionOrder ==
    /\ CountsReturned => outcome["c1"].value = CountsOfAnswers("c1")
    /\ FindReturned =>
          /\ {io["c1"].searches[k].spotName : k \in 1..Len(io["c1"].searches)}
                = {FlaggedChecks("c1")[k].spotName : k \in 1..Len(FlaggedChecks("c1"))}
          /\ {<<outcome["c1"].value[k].spotName, outcome["c1"].value[k].oldImageUrl,
                outcome["c1"].value[k].newImageUrl>> : k \in 1..Len(outcome["c1"].value)}
                = ProposalsOfAnswers("c1")

\* the regions of a count completed in an order that is not the order of
\* the list, and two of them have a count
C24_Witness ==
    /\ CountsReturned
    /\ Cardinality(DOMAIN outcome["c1"].value) >= 2
    /\ LET checks == io["c1"].checks
           listed == local["c1"].prefectures
           RankOf(id) == CHOOSE k \in 1..Len(listed) : listed[k].id = id
       IN  \E i, j \in 1..Len(checks) :
               i < j /\ RankOf(checks[i].id) > RankOf(checks[j].id)


\* C29: getBatchUpdateCountsV2 and batchFindImageUpdatesV2 only read: no
\* step of an invocation of either, whichever of its fetches, checks and
\* searches fail, writes a region document or a commit, or creates, changes
\* or deletes an edit request, image report, submission, notification or
\* announcement.
C29_BatchReadersOnlyRead ==
    [][\A c \in Procs :
          (StepOf(c, "getBatchUpdateCountsV2") \/ StepOf(c, "batchFindImageUpdatesV2"))
            => UNCHANGED <<files, commits, imageReports, editRequests, submissions,
                           announcements, mailbox>>]_vars

\* a search run that met a failed fetch and a failed image search and made
\* a proposal, with every document at its first revision
C29_Witness ==
    /\ FindReturned
    /\ Len(outcome["c1"].value) >= 1
    /\ \E f \in FilePaths : io["c1"].fate[f] = "fetch-failed"
    /\ \E k \in 1..Len(io["c1"].searches) : io["c1"].searches[k].threw
    /\ commits = <<>>
    /\ \A f \in FilePaths : files[f].content = InitialContent(f[2])
    /\ pc["c2"] = "idle"

(***************************************************************************)
(* SpecAll: the seven callables reserved to administrators, two            *)
(* invocations at a time.                                                  *)
(***************************************************************************)
\* the answers the batch readers meet here: the classifier says no (only a
\* spot without image is flagged) and the search finds one accepted item
QuietAnswers == {AnswerNo}

QuietSearches ==
    { [search |-> [kind |-> "ok", items |-> SubSeq(FoundItems, 1, 1)],
       answers |-> <<AnswerYes>>] }

InvokeReader(c) ==
    /\ pc[c] = "idle"
    /\ \E caller \in Callers, m \in MapReads :
          \/ CountsStart(c, caller, m[1], m[2])
          \/ \E data \in FindArgs : FindStart(c, caller, data, m[1], m[2])

NextAll ==
    \/ Next
    \/ \E c \in Procs :
          \/ InvokeReader(c)
          \/ CountsSteps(c, QuietAnswers)
          \/ FindSteps(c, QuietAnswers, QuietSearches)

SpecAll == Init /\ [][NextAll]_vars

(***************************************************************************)
(* Claims about access control (checked under SpecAll).                    *)
(***************************************************************************)
\* C15: a call of any of the seven privileged handlers by a caller who is
\* unauthenticated or lacks the administrative flag ends at once with
\* permission-denied, before any external call: no request is sent and the
\* documents, edit requests, image reports, submissions, notifications and
\* announcements are unchanged.
C15_NonAdminDeniedBeforeAnyCall ==
    [][\A c \in Procs :
          (pc[c] = "idle" /\ pc'[c] # "idle" /\ call'[c].caller # "admin") =>
              /\ pc'[c] = "done"
              /\ outcome'[c] = Failure("permission-denied")
              /\ io'[c] = NoIo
              /\ local'[c] = NoLocal
              /\ UNCHANGED <<files, commits, imageReports, editRequests, submissions,
                             announcements, mailbox>>]_vars

\* a batch reader called anonymously and a writer called by a signed-in
\* user without the flag: both denied, the store as it was
C15_Witness ==
    /\ call["c1"].handler = "batchFindImageUpdatesV2"
    /\ call["c1"].caller = "anonymous"
    /\ call["c2"].handler = "approveSubmissionV2"
    /\ call["c2"].caller = "user"
    /\ \A c \in Procs : pc[c] = "done" /\ outcome[c].code = "permission-denied"
    /\ \A f \in FilePaths : files[f].sha = 1
    /\ commits = <<>>
    /\ submissions = {"sub1", "sub2"}

(***************************************************************************)
(* Claims about the error kinds that reach the caller.                     *)
(***************************************************************************)
\* C17 (checked under SpecBatch): batchFindImageUpdatesV2 called by an
\* administrator, the regions listed, with a prefectureId that is neither
\* "all" nor the id of a listed region fails with not-found, not with
\* internal.
C17_UnknownRegionIsNotFound ==
    (/\ call["c1"].handler = "batchFindImageUpdatesV2"
     /\ call["c1"].caller = "admin"
     /\ io["c1"].listing = "ok"
     /\ Has(call["c1"].data, "prefectureId")
     /\ call["c1"].data.prefectureId \notin {"all"} \cup RegionIds
     /\ pc["c1"] = "done") =>
        outcome["c1"] = Failure("not-found")

(***************************************************************************)
(* Claims about the stored collections under all seven handlers (checked   *)
(* under SpecAll).                                                         *)
(***************************************************************************)
\* the log now is the log before with entries added at its end
Extends(after, before) ==
    /\ Len(after) >= Len(before)
    /\ SubSeq(after, 1, Len(before)) = before

\* C23: announcements and the notifications of every user are append-only:
\* whatever the handlers do, an entry once created is never updated or
\* deleted; entries are only added, each as a new document.
C23_LogsAreAppendOnly ==
    [][/\ Extends(announcements', announcements)
       /\ \A u \in Users : Extends(mailbox'[u], mailbox[u])]_vars

\* two approved requests of the same user: two announcements and two
\* notifications, the first ones still there
C23_Witness ==
    /\ announcements = <<"spot-updated", "spot-deleted">>
    /\ mailbox["u1"] = <<"request-approved", "request-approved">>
    /\ \A c \in Procs : pc[c] = "done" /\ outcome[c].kind = "success"

====
